---- MODULE Spec2Model ----
(***************************************************************************)
(* A model of the HGF belief network of pyhgf's Rust core: the graph store *)
(* (Network::add_nodes, set_coupling), the update-sequence planner         *)
(* (get_predictions_sequence, get_updates_sequence), the learning-sequence *)
(* interleaver (build_learning_sequence) and the per-time-step driver      *)
(* (Network::input_data, belief_propagation).                              *)
(*                                                                         *)
(* Node ids are naturals.  An Option<Vec<usize>> is a record               *)
(* [some, v]; a step of a sequence is a pair <<node id, kernel name>>,     *)
(* the kernel name being the one get_func_map gives the function pointer.  *)
(* f64 coupling strengths are modelled by integers (1.0 is 1).             *)
(***************************************************************************)
EXTENDS Integers, Sequences, FiniteSets, TLC

\* ------------------------------------------------------------------ bounds

\* Largest number of nodes a network is built with.
MaxNodes == 3

\* Longest update sequence given to build_learning_sequence.
MaxSteps == 4

\* Longest prediction sequence given to build_learning_sequence.
MaxPredictions == 1

\* Largest number of observations given to input_data.
MaxTime == 2

\* Largest number of calls of input_data on one network.
MaxCalls == 2

\* Largest magnitude of a finite number of the learning rules (f64::MAX).
MaxFloat == 8

\* ------------------------------------------------------- Option<Vec<usize>>

None == [some |-> FALSE, v |-> <<>>]

Some(s) == [some |-> TRUE, v |-> s]

is_some(o) == o.some

is_none(o) == ~o.some

\* The elements of a sequence.
Range(s) == {s[i] : i \in 1..Len(s)}

\* vec.contains(x)
contains(s, x) == \E i \in 1..Len(s) : s[i] = x

\* vec![x; n]
Repeat(x, n) == [i \in 1..n |-> x]

\* iter().position(|&p| p == x): the first index (from 1) holding x, 0 when absent.
position(s, x) ==
  IF contains(s, x) THEN CHOOSE i \in 1..Len(s) : s[i] = x /\ \A j \in 1..(i - 1) : s[j] # x
  ELSE 0

\* keys().cloned().collect() followed by sort(): the ids of a set in ascending order.
RECURSIVE SortedKeys(_)
SortedKeys(S) ==
  IF S = {} THEN <<>>
  ELSE LET m == CHOOSE x \in S : \A y \in S : x <= y
       IN  <<m>> \o SortedKeys(S \ {m})

\* ------------------------------------------------------------- the network

VARIABLES
  edges,            \* Network.edges: node id -> AdjacencyLists
  inputs,           \* Network.inputs
  vectors,          \* Network.attributes.vectors: node id -> (key -> Vec<f64>)
  floats,           \* Network.attributes.floats: node id -> (key -> f64)
  fn_ptrs,          \* Network.attributes.fn_ptrs: node id -> (key -> coupling functions)
  update_type,      \* Network.update_type
  update_sequence,  \* Network.update_sequence: [predictions, updates]
  node_trajectories, \* Network.node_trajectories: [floats, vectors]
  pc,               \* where the caller of the library is
  run,              \* the locals of a call of Network::input_data in progress
  inputs_x_idxs,    \* the predictor ids given to build_learning_sequence
  learning_sequence \* what build_learning_sequence returned

vars == <<edges, inputs, vectors, floats, fn_ptrs, update_type, update_sequence,
          node_trajectories, pc, run, inputs_x_idxs, learning_sequence>>

\* The variables of a call of input_data and of build_learning_sequence.
calls == <<run, inputs_x_idxs, learning_sequence>>

\* NodeTrajectories with no node.
NoTrajectories == [floats |-> <<>>, vectors |-> <<>>]

\* No call of input_data in progress, and none made yet.
NoRun ==
  [predictions |-> <<>>, updates |-> <<>>, input_data |-> <<>>, n_time |-> 0, t |-> 0,
   stage |-> "idle", i |-> 0, trace |-> <<>>, calls |-> 0,
   node_trajectories |-> NoTrajectories]

\* No sequence returned yet.
NoSequence == [predictions |-> <<>>, updates |-> <<>>]

NodeKinds == {"continuous-state", "volatile-state", "ef-state"}

UpdateTypes == {"standard", "eHGF", "unbounded"}

\* The network as the value the functions of the library take.
Network ==
  [edges |-> edges, inputs |-> inputs, vectors |-> vectors, floats |-> floats,
   fn_ptrs |-> fn_ptrs, update_type |-> update_type, update_sequence |-> update_sequence]

AdjacencyLists(kind, vp, vc, volp, volc) ==
  [node_type |-> kind, value_parents |-> vp, value_children |-> vc,
   volatility_parents |-> volp, volatility_children |-> volc]

\* HashMap::insert(k, v)
MapInsert(m, k, v) == [x \in DOMAIN m \cup {k} |-> IF x = k THEN v ELSE m[x]]

\* Network::new
NetworkNew(ut) ==
  [edges |-> <<>>, inputs |-> <<>>, vectors |-> <<>>, floats |-> <<>>, fn_ptrs |-> <<>>,
   update_type |-> ut,
   update_sequence |-> [predictions |-> <<>>, updates |-> <<>>]]

\* LinkChild forgetting the push of 1.0 onto the child's coupling vector.
LinkChildNoCoupling(net, node_id, child_idx, pfield, pkey) ==
  IF child_idx \in DOMAIN net.edges
  THEN LET ce == net.edges[child_idx]
           np == IF is_some(ce[pfield]) THEN Some(Append(ce[pfield].v, node_id))
                 ELSE Some(<<node_id>>)
       IN  [net EXCEPT !.edges = [net.edges EXCEPT ![child_idx] = [ce EXCEPT ![pfield] = np]]]
  ELSE net

\* One turn of the loop `for &child_idx in vc` of add_nodes: the child's parents
\* list gets node_id appended when the child is in edges, and the child's coupling
\* vector (created when missing) gets one more 1.0.
LinkChild(net, node_id, child_idx, pfield, pkey) ==
  LET e1 == IF child_idx \in DOMAIN net.edges
            THEN LET ce == net.edges[child_idx]
                     np == IF is_some(ce[pfield]) THEN Some(Append(ce[pfield].v, node_id))
                           ELSE Some(<<node_id>>)
                 IN  [net.edges EXCEPT ![child_idx] = [ce EXCEPT ![pfield] = np]]
            ELSE net.edges
      child_vecs == IF child_idx \in DOMAIN net.vectors THEN net.vectors[child_idx] ELSE <<>>
      cs == IF pkey \in DOMAIN child_vecs THEN Append(child_vecs[pkey], 1) ELSE <<1>>
      v1 == MapInsert(net.vectors, child_idx, MapInsert(child_vecs, pkey, cs))
  IN  [net EXCEPT !.edges = e1, !.vectors = v1]

RECURSIVE LinkChildren(_, _, _, _, _)
LinkChildren(net, node_id, children, pfield, pkey) ==
  IF children = <<>> THEN net
  ELSE LinkChildren(LinkChild(net, node_id, Head(children), pfield, pkey),
                    node_id, Tail(children), pfield, pkey)

\* The coupling-strength vectors a new node gets for the lists it declares.
VecAttrs(pairs) ==
  LET present == {p \in pairs : is_some(p[2])}
  IN  [k \in {p[1] : p \in present} |->
         LET p == CHOOSE q \in present : q[1] = k IN Repeat(1, Len(p[2].v))]

\* An f64 the code writes as a literal: the literal's value (all are whole).
Const(x) == <<"c", x>>

\* HashMap::from over (key, literal) pairs.
FloatAttrs(pairs) ==
  [k \in {p[1] : p \in pairs} |-> Const((CHOOSE q \in pairs : q[1] = k)[2])]

\* The scalar attributes add_nodes gives a continuous-state node: an input node
\* has no autoconnection and no tonic volatility.
ContinuousFloats(is_input) ==
  FloatAttrs({<<"mean", 0>>, <<"expected_mean", 0>>, <<"precision", 1>>,
              <<"expected_precision", 1>>,
              <<"tonic_volatility", IF is_input THEN 0 ELSE -4>>,
              <<"tonic_drift", 0>>,
              <<"autoconnection_strength", IF is_input THEN 0 ELSE 1>>,
              <<"current_variance", 1>>})

\* The scalar attributes add_nodes gives an ef-state node.
ExponentialFloats == FloatAttrs({<<"mean", 0>>, <<"nus", 3>>})

\* The scalar attributes add_nodes gives a volatile-state node.
VolatileFloats ==
  FloatAttrs({<<"mean", 0>>, <<"expected_mean", 0>>, <<"precision", 1>>,
              <<"expected_precision", 1>>, <<"tonic_volatility", -4>>,
              <<"tonic_drift", 0>>, <<"autoconnection_strength", 1>>,
              <<"current_variance", 1>>, <<"mean_vol", 0>>, <<"expected_mean_vol", 0>>,
              <<"precision_vol", 1>>, <<"expected_precision_vol", 1>>,
              <<"tonic_volatility_vol", -4>>, <<"tonic_drift_vol", 0>>,
              <<"autoconnection_strength_vol", 1>>, <<"volatility_coupling_internal", 1>>,
              <<"observed", 1>>, <<"effective_precision", 0>>,
              <<"value_prediction_error", 0>>, <<"volatility_prediction_error", 0>>,
              <<"effective_precision_vol", 0>>})

\* Network::add_nodes
add_nodes(net, kind, value_parents, value_children, volatility_parents, volatility_children) ==
  LET node_id == Cardinality(DOMAIN net.edges)
      is_input == is_none(value_children) /\ is_none(volatility_children)
      n0 == IF is_input THEN [net EXCEPT !.inputs = Append(net.inputs, node_id)] ELSE net
      adj == AdjacencyLists(kind, value_parents, value_children,
                            volatility_parents, volatility_children)
  IN  CASE kind = "continuous-state" ->
             LET n1 == [n0 EXCEPT !.floats = MapInsert(n0.floats, node_id,
                                                        ContinuousFloats(is_input)),
                                  !.edges = MapInsert(n0.edges, node_id, adj)]
                 vec_attrs == VecAttrs({<<"value_coupling_parents", value_parents>>,
                                        <<"value_coupling_children", value_children>>,
                                        <<"volatility_coupling_parents", volatility_parents>>,
                                        <<"volatility_coupling_children", volatility_children>>})
                 n2 == IF is_some(value_children)
                       THEN LinkChildren(n1, node_id, value_children.v,
                                         "value_parents", "value_coupling_parents")
                       ELSE n1
                 n3 == IF is_some(volatility_children)
                       THEN LinkChildren(n2, node_id, volatility_children.v,
                                         "volatility_parents", "volatility_coupling_parents")
                       ELSE n2
             IN  IF DOMAIN vec_attrs # {}
                 THEN [n3 EXCEPT !.vectors = MapInsert(n3.vectors, node_id, vec_attrs)]
                 ELSE n3
        [] kind = "ef-state" ->
             [n0 EXCEPT !.floats = MapInsert(n0.floats, node_id, ExponentialFloats),
                        !.vectors = MapInsert(n0.vectors, node_id, [k \in {"xis"} |-> <<0, 1>>]),
                        !.edges = MapInsert(n0.edges, node_id, adj)]
        [] kind = "volatile-state" ->
             LET volatile_edges == AdjacencyLists(kind, value_parents, value_children, None, None)
                 n1 == [n0 EXCEPT !.floats = MapInsert(n0.floats, node_id, VolatileFloats),
                                  !.edges = MapInsert(n0.edges, node_id, volatile_edges)]
                 vec_attrs == VecAttrs({<<"value_coupling_parents", value_parents>>,
                                        <<"value_coupling_children", value_children>>})
                 n2 == IF is_some(value_children)
                       THEN LinkChildren(n1, node_id, value_children.v,
                                         "value_parents", "value_coupling_parents")
                       ELSE n1
             IN  IF DOMAIN vec_attrs # {}
                 THEN [n2 EXCEPT !.vectors = MapInsert(n2.vectors, node_id, vec_attrs)]
                 ELSE n2
        [] OTHER -> n0

\* A write of position pos of every coupling vector of node idx.
WriteCouplingEveryVector(vecs, idx, key, pos, coupling) ==
  IF idx \in DOMAIN vecs
  THEN [vecs EXCEPT ![idx] = [k \in DOMAIN @ |->
                               IF pos <= Len(@[k]) THEN [@[k] EXCEPT ![pos] = coupling]
                               ELSE @[k]]]
  ELSE vecs

\* The coupling vector `key` of node idx with position pos (from 1) set to
\* coupling, when the node has that vector and the position is inside it.
WriteCoupling(vecs, idx, key, pos, coupling) ==
  IF idx \in DOMAIN vecs /\ key \in DOMAIN vecs[idx] /\ pos <= Len(vecs[idx][key])
  THEN [vecs EXCEPT ![idx] = [@ EXCEPT ![key] = [@ EXCEPT ![pos] = coupling]]]
  ELSE vecs

\* set_coupling: the child side, then the parent side; a side whose edge or
\* vector is missing is skipped.
set_coupling(net, parent_idx, child_idx, coupling) ==
  LET pos_c == IF child_idx \in DOMAIN net.edges /\ is_some(net.edges[child_idx].value_parents)
               THEN position(net.edges[child_idx].value_parents.v, parent_idx)
               ELSE 0
      v1 == IF pos_c # 0
            THEN WriteCoupling(net.vectors, child_idx, "value_coupling_parents", pos_c, coupling)
            ELSE net.vectors
      pos_p == IF parent_idx \in DOMAIN net.edges /\ is_some(net.edges[parent_idx].value_children)
               THEN position(net.edges[parent_idx].value_children.v, child_idx)
               ELSE 0
      v2 == IF pos_p # 0
            THEN WriteCoupling(v1, parent_idx, "value_coupling_children", pos_p, coupling)
            ELSE v1
  IN  [net EXCEPT !.vectors = v2]

\* ------------------------------------------------------------ the planner

\* A step of a sequence: (usize, FnType), the function named as in get_func_map.
Step(idx, fn) == <<idx, fn>>

\* The parents a node waits for in get_predictions_sequence: value parents
\* followed by volatility parents, None when both lists are absent.
parents_idxs(adj) ==
  CASE is_some(adj.value_parents) /\ is_some(adj.volatility_parents) ->
         Some(adj.value_parents.v \o adj.volatility_parents.v)
    [] is_some(adj.value_parents) -> Some(adj.value_parents.v)
    [] is_some(adj.volatility_parents) -> Some(adj.volatility_parents.v)
    [] OTHER -> None

\* Is a parent of idx still in the to-be-updated list?
contains_common(net, nodes_idxs, idx) ==
  LET p == parents_idxs(net.edges[idx])
  IN  IF is_some(p) THEN \E i \in 1..Len(p.v) : contains(nodes_idxs, p.v[i]) ELSE FALSE

\* A prediction step pushed for continuous-state nodes only.
prediction_step_continuous(net, idx) ==
  IF net.edges[idx].node_type = "continuous-state"
  THEN <<Step(idx, "prediction_continuous_state_node")>>
  ELSE <<>>

\* The step get_predictions_sequence pushes for a node it removes from the list.
prediction_step(net, idx) ==
  CASE net.edges[idx].node_type = "continuous-state" ->
         <<Step(idx, "prediction_continuous_state_node")>>
    [] net.edges[idx].node_type = "volatile-state" ->
         <<Step(idx, "prediction_volatile_state_node")>>
    [] OTHER -> <<>>

\* nodes_idxs.retain(|&x| x != idx)
Without(s, idx) == LET Keep(x) == x # idx IN SelectSeq(s, Keep)

\* first_free taking the head of the list whatever its parents.
first_any(net, nodes_idxs) == IF nodes_idxs = <<>> THEN 0 ELSE 1

\* The scan `for i in 0..nodes_idxs.len()` up to its break: the first position
\* (from 1) of a node none of whose parents is still in the list, 0 when there is none.
first_free(net, nodes_idxs) ==
  LET free == {i \in 1..Len(nodes_idxs) : ~contains_common(net, nodes_idxs, nodes_idxs[i])}
  IN  IF free = {} THEN 0 ELSE CHOOSE k \in free : \A j \in free : k <= j

\* The while loop of get_predictions_sequence.  st.removed lists the nodes in the
\* order the loop takes them out of nodes_idxs.
RECURSIVE predictions_loop(_, _)
predictions_loop(net, st) ==
  IF ~(st.n_remaining > 0) THEN st
  ELSE LET i == first_free(net, st.nodes_idxs)
       IN  IF i = 0 THEN st
           ELSE LET idx == st.nodes_idxs[i]
                IN  predictions_loop(net,
                      [nodes_idxs |-> Without(st.nodes_idxs, idx),
                       n_remaining |-> st.n_remaining - 1,
                       predictions |-> st.predictions \o prediction_step(net, idx),
                       removed |-> Append(st.removed, idx)])

predictions_run(net) ==
  LET nodes_idxs == SortedKeys(DOMAIN net.edges)
  IN  predictions_loop(net, [nodes_idxs |-> nodes_idxs, n_remaining |-> Len(nodes_idxs),
                             predictions |-> <<>>, removed |-> <<>>])

get_predictions_sequence(net) == predictions_run(net).predictions

\* Collect all children (value + volatility) of a node's adjacency lists.
get_all_children(adj) ==
  CASE is_some(adj.value_children) /\ is_some(adj.volatility_children) ->
         adj.value_children.v \o adj.volatility_children.v
    [] is_some(adj.value_children) -> adj.value_children.v
    [] is_some(adj.volatility_children) -> adj.volatility_children.v
    [] OTHER -> <<>>

\* The posterior kernel of the match on network.update_type.
posterior_kernel(update_type_, ehgf, unbounded, standard) ==
  CASE update_type_ = "eHGF" -> ehgf
    [] update_type_ = "unbounded" -> unbounded
    [] OTHER -> standard

\* The step the posterior batch pushes for an eligible node.
posterior_step(net, idx) ==
  LET adj == net.edges[idx]
  IN  CASE adj.node_type = "continuous-state" ->
             IF is_some(adj.volatility_children)
             THEN <<Step(idx, posterior_kernel(net.update_type,
                                "posterior_update_continuous_state_node_ehgf",
                                "posterior_update_continuous_state_node_unbounded",
                                "posterior_update_continuous_state_node"))>>
             ELSE <<Step(idx, "posterior_update_continuous_state_node")>>
        [] adj.node_type = "volatile-state" ->
             <<Step(idx, posterior_kernel(net.update_type,
                           "posterior_update_volatile_state_node_ehgf",
                           "posterior_update_volatile_state_node_unbounded",
                           "posterior_update_volatile_state_node"))>>
        [] OTHER -> <<>>

\* The step the prediction-error batch pushes for an eligible node.
prediction_error_step(net, idx) ==
  LET adj == net.edges[idx]
      has_parents == ~(is_none(adj.value_parents) /\ is_none(adj.volatility_parents))
  IN  CASE adj.node_type = "continuous-state" /\ has_parents ->
             <<Step(idx, "prediction_error_continuous_state_node")>>
        [] adj.node_type = "volatile-state" /\ has_parents ->
             <<Step(idx, "prediction_error_volatile_state_node")>>
        [] adj.node_type = "ef-state" ->
             <<Step(idx, "prediction_error_exponential_state_node")>>
        [] OTHER -> <<>>

\* The steps a batch pushes, in the order of the batch.
RECURSIVE BatchSteps(_, _, _)
BatchSteps(net, batch, kind) ==
  IF batch = <<>> THEN <<>>
  ELSE (IF kind = "po" THEN posterior_step(net, Head(batch))
        ELSE prediction_error_step(net, Head(batch)))
       \o BatchSteps(net, Tail(batch), kind)

\* eligible_po not waiting for the prediction errors of the children.
eligible_po_all(net, pe_nodes_idxs, po_nodes_idxs) == po_nodes_idxs

\* The posterior batch: the nodes of the posterior queue all of whose children
\* have left the prediction-error queue.
eligible_po(net, pe_nodes_idxs, po_nodes_idxs) ==
  LET Eligible(idx) ==
        LET children == get_all_children(net.edges[idx])
        IN  \A c \in 1..Len(children) : ~contains(pe_nodes_idxs, children[c])
  IN  SelectSeq(po_nodes_idxs, Eligible)

\* eligible_pe not waiting for the posterior of a node.
eligible_pe_early(pe_nodes_idxs, po_nodes_idxs) == pe_nodes_idxs

\* The prediction-error batch: the nodes of the prediction-error queue that are
\* not (or no longer) in the posterior queue.
eligible_pe(pe_nodes_idxs, po_nodes_idxs) ==
  LET Eligible(idx) == ~contains(po_nodes_idxs, idx)
  IN  SelectSeq(pe_nodes_idxs, Eligible)

\* queue.retain(|x| !batch.contains(x))
RetainNotIn(queue, batch) ==
  LET Keep(x) == ~contains(batch, x) IN SelectSeq(queue, Keep)

\* One turn of the loop of get_updates_sequence: the posterior batch, then the
\* prediction-error batch.  done tells whether the loop breaks after it.
updates_pass(net, st) ==
  LET batch_po == eligible_po(net, st.pe_nodes_idxs, st.po_nodes_idxs)
      po_steps == BatchSteps(net, batch_po, "po")
      po_nodes_idxs == RetainNotIn(st.po_nodes_idxs, batch_po)
      batch_pe == eligible_pe(st.pe_nodes_idxs, po_nodes_idxs)
      pe_steps == BatchSteps(net, batch_pe, "pe")
      pe_nodes_idxs == RetainNotIn(st.pe_nodes_idxs, batch_pe)
      has_update == batch_po # <<>> \/ pe_steps # <<>>
  IN  [pe_nodes_idxs |-> pe_nodes_idxs,
       po_nodes_idxs |-> po_nodes_idxs,
       updates |-> st.updates \o po_steps \o pe_steps,
       passes |-> st.passes + 1,
       done |-> (pe_nodes_idxs = <<>> /\ po_nodes_idxs = <<>>) \/ ~has_update]

RECURSIVE updates_loop(_, _)
updates_loop(net, st) ==
  IF st.done THEN st ELSE updates_loop(net, updates_pass(net, st))

updates_run(net) ==
  LET keys == SortedKeys(DOMAIN net.edges)
      NotInput(x) == ~contains(net.inputs, x)
  IN  updates_loop(net, updates_pass(net,
        [pe_nodes_idxs |-> keys, po_nodes_idxs |-> SelectSeq(keys, NotInput),
         updates |-> <<>>, passes |-> 0, done |-> FALSE]))

get_updates_sequence(net) == updates_run(net).updates

set_update_sequence(net) ==
  [predictions |-> get_predictions_sequence(net), updates |-> get_updates_sequence(net)]

\* The orders keys() can yield the ids of a map in: the iteration order of a
\* HashMap is arbitrary.
KeyOrders(S) ==
  {s \in [1..Cardinality(S) -> S] : \A i, j \in 1..Cardinality(S) : s[i] = s[j] => i = j}

\* A vector left in the order its ids were collected in.
sort_as_collected(s) == s

\* sort() on a vector of ids.
RECURSIVE sort(_)
sort(s) ==
  IF s = <<>> THEN <<>>
  ELSE LET m == CHOOSE x \in Range(s) : \A y \in Range(s) : x <= y
           IsMin(x) == x = m
           Rest(x) == x # m
       IN  SelectSeq(s, IsMin) \o sort(SelectSeq(s, Rest))

\* get_predictions_sequence with the order keys() yielded the ids in.
predictions_from_keys(net, keys) ==
  LET nodes_idxs == sort(keys)
  IN  predictions_loop(net, [nodes_idxs |-> nodes_idxs, n_remaining |-> Len(nodes_idxs),
                             predictions |-> <<>>, removed |-> <<>>]).predictions

\* get_updates_sequence with the orders its two calls of keys() yielded.
updates_from_keys(net, pe_keys, po_keys) ==
  LET pe_nodes_idxs == sort(pe_keys)
      po_nodes_idxs == sort(po_keys)
      NotInput(x) == ~contains(net.inputs, x)
  IN  updates_loop(net, updates_pass(net,
        [pe_nodes_idxs |-> pe_nodes_idxs, po_nodes_idxs |-> SelectSeq(po_nodes_idxs, NotInput),
         updates |-> <<>>, passes |-> 0, done |-> FALSE])).updates

\* ------------------------------------------------------------------ a run

\* Where belief_propagation stands when it is entered: its first loop that has
\* a turn to make.  observations_set always holds one observation.
first_position(r) ==
  IF r.predictions # <<>> THEN [stage |-> "predictions", i |-> 1]
  ELSE [stage |-> "observations", i |-> 1]

\* next_position running the update steps before the observation steps.
next_position_updates_first(r, stage, i) ==
  CASE stage = "predictions" ->
         IF i < Len(r.predictions) THEN [stage |-> "predictions", i |-> i + 1]
         ELSE IF r.updates # <<>> THEN [stage |-> "updates", i |-> 1]
         ELSE [stage |-> "observations", i |-> 1]
    [] stage = "updates" ->
         IF i < Len(r.updates) THEN [stage |-> "updates", i |-> i + 1]
         ELSE [stage |-> "observations", i |-> 1]
    [] OTHER -> [stage |-> "record", i |-> 1]

\* Where belief_propagation stands after turn i of the loop `stage`: the three
\* loops follow each other, and the recording of the trajectories follows them.
next_position(r, stage, i) ==
  CASE stage = "predictions" ->
         IF i < Len(r.predictions) THEN [stage |-> "predictions", i |-> i + 1]
         ELSE [stage |-> "observations", i |-> 1]
    [] stage = "observations" ->
         IF r.updates # <<>> THEN [stage |-> "updates", i |-> 1]
         ELSE [stage |-> "record", i |-> 1]
    [] OTHER ->
         IF i < Len(r.updates) THEN [stage |-> "updates", i |-> i + 1]
         ELSE [stage |-> "record", i |-> 1]

\* A call made by belief_propagation, as the trace of a time step lists it.
Call(kind, idx, fn) == <<kind, idx, fn>>

\* ------------------------------------------------------------- the kernels

\* An f64 a kernel computes is modelled by where it comes from: a literal
\* (Const), an observation, the result a kernel computed in a time step, the
\* inverse 1.0 / v of another value, or the floor v.max(1e-128) of one.
Observed(x) == <<"x", x>>

Computed(fn, time) == <<"w", fn, time>>

Inverse(v) == <<"inv", v>>

Floored(v) == <<"max", v>>

\* v / n for a number n of parents: dividing by 1.0 gives v itself.
Divided(v, n) == IF n = 1 THEN v ELSE <<"div", v, n>>

\* The map of a set of (key, value) pairs.
MapFrom(pairs) == [k \in {p[1] : p \in pairs} |-> (CHOOSE q \in pairs : q[1] = k)[2]]

\* One insert per pair into the scalar attributes of every node.
InsertFloatsEverywhere(fl, node_idx, pairs) ==
  LET w == MapFrom(pairs)
  IN  [n \in DOMAIN fl |->
         [k \in DOMAIN fl[n] \cup DOMAIN w |-> IF k \in DOMAIN w THEN w[k] ELSE fl[n][k]]]

\* floats.get_mut(&node_idx) followed by one insert per pair.
InsertFloats(fl, node_idx, pairs) ==
  LET w == MapFrom(pairs)
  IN  [fl EXCEPT ![node_idx] =
         [k \in DOMAIN fl[node_idx] \cup DOMAIN w |->
            IF k \in DOMAIN w THEN w[k] ELSE fl[node_idx][k]]]

\* The (node, key) pairs of a list of neighbours.
KeysOf(list, keys) == {<<list.v[i], k>> : i \in 1..(IF is_some(list) THEN Len(list.v) ELSE 0), k \in keys}

\* The list `field` of a node's edges, None when the node has no edges.
EdgeList(net, node_idx, field) ==
  IF node_idx \in DOMAIN net.edges THEN net.edges[node_idx][field] ELSE None

\* The scalar attributes a kernel reads with expect or unwrap: (node, key) pairs.
kernel_reads(net, node_idx, fn) ==
  LET own(keys) == {<<node_idx, k>> : k \in keys}
      vp == EdgeList(net, node_idx, "value_parents")
      volp == EdgeList(net, node_idx, "volatility_parents")
      vc == EdgeList(net, node_idx, "value_children")
      volc == EdgeList(net, node_idx, "volatility_children")
      posterior_continuous ==
        own({"expected_precision", "expected_mean"})
          \cup KeysOf(vc, {"expected_precision", "value_prediction_error"})
          \cup KeysOf(volc, {"effective_precision", "volatility_prediction_error"})
      posterior_volatile ==
        own({"expected_precision", "expected_mean", "mean", "precision",
             "expected_precision_vol", "volatility_prediction_error",
             "effective_precision", "volatility_coupling_internal", "expected_mean_vol"})
          \cup KeysOf(vc, {"expected_precision", "value_prediction_error"})
  IN  CASE fn = "prediction_continuous_state_node" ->
             own({"mean", "tonic_drift", "autoconnection_strength", "precision",
                  "tonic_volatility"})
               \cup KeysOf(vp, {"expected_mean"}) \cup KeysOf(volp, {"mean"})
        [] fn = "prediction_volatile_state_node" ->
             own({"precision", "mean_vol", "precision_vol", "tonic_drift_vol",
                  "autoconnection_strength_vol", "tonic_volatility_vol",
                  "tonic_volatility", "volatility_coupling_internal", "mean",
                  "tonic_drift", "autoconnection_strength"})
               \cup KeysOf(vp, {"expected_mean"})
        [] fn \in {"prediction_error_continuous_state_node",
                   "prediction_error_volatile_state_node"} ->
             own({"mean", "expected_mean", "precision", "expected_precision"})
        [] fn \in {"posterior_update_continuous_state_node",
                   "posterior_update_continuous_state_node_ehgf"} ->
             posterior_continuous
        [] fn = "posterior_update_continuous_state_node_unbounded" ->
             own({"expected_mean", "expected_precision"})
               \cup (IF is_some(volc) /\ volc.v # <<>>
                     THEN {<<volc.v[1], k>> : k \in {"mean", "precision", "expected_mean",
                                                     "tonic_volatility", "current_variance"}}
                     ELSE {})
        [] fn \in {"posterior_update_volatile_state_node",
                   "posterior_update_volatile_state_node_ehgf"} ->
             posterior_volatile
        [] fn = "posterior_update_volatile_state_node_unbounded" ->
             posterior_volatile \cup own({"tonic_volatility", "current_variance"})
        [] OTHER -> own({"mean"})

\* A kernel panics when an attribute it expects is missing; the unbounded
\* continuous posterior also when the node has no first volatility child.
kernel_panics(net, node_idx, fn) ==
  \/ \E rd \in kernel_reads(net, node_idx, fn) :
       rd[1] \notin DOMAIN net.floats \/ rd[2] \notin DOMAIN net.floats[rd[1]]
  \/ /\ fn = "posterior_update_continuous_state_node_unbounded"
     /\ LET volc == EdgeList(net, node_idx, "volatility_children")
        IN  is_none(volc) \/ volc.v = <<>>

\* prediction_continuous_state_node taking the current variance from the
\* expected precision.
prediction_continuous_state_node_expected(net, node_idx, time) ==
  LET fn == "prediction_continuous_state_node"
  IN  InsertFloats(net.floats, node_idx,
        {<<"expected_precision", Computed(fn, time)>>,
         <<"current_variance", Inverse(Computed(fn, time))>>,
         <<"expected_mean", Computed(fn, time)>>,
         <<"effective_precision", Computed(fn, time)>>})

\* prediction_continuous_state_node: the expected precision is not floored, and
\* is not written for an input node without volatility parents; the current
\* variance is the inverse of the precision the node has when the kernel runs.
prediction_continuous_state_node(net, node_idx, time) ==
  LET fn == "prediction_continuous_state_node"
      vc == EdgeList(net, node_idx, "value_children")
      volc == EdgeList(net, node_idx, "volatility_children")
      is_input == is_none(vc) /\ is_none(volc)
      has_volatility_parents == is_some(EdgeList(net, node_idx, "volatility_parents"))
      expected_precision ==
        IF is_input /\ ~has_volatility_parents THEN {}
        ELSE {<<"expected_precision", Computed(fn, time)>>}
  IN  InsertFloats(net.floats, node_idx,
        expected_precision
          \cup {<<"current_variance", Inverse(net.floats[node_idx]["precision"])>>,
                <<"expected_mean", Computed(fn, time)>>,
                <<"effective_precision", Computed(fn, time)>>})

\* prediction_volatile_state_node: the current variance first, then the
\* volatility level, then the value level; no precision is floored.
prediction_volatile_state_node(net, node_idx, time) ==
  LET fn == "prediction_volatile_state_node"
  IN  InsertFloats(net.floats, node_idx,
        {<<"current_variance", Inverse(net.floats[node_idx]["precision"])>>,
         <<"expected_mean_vol", Computed(fn, time)>>,
         <<"expected_precision_vol", Computed(fn, time)>>,
         <<"effective_precision_vol", Computed(fn, time)>>,
         <<"expected_mean", Computed(fn, time)>>,
         <<"expected_precision", Computed(fn, time)>>,
         <<"effective_precision", Computed(fn, time)>>})

\* The prediction errors divided by max(1, number of parents).
prediction_error_state_node_safe(net, node_idx, fn, time) ==
  LET vp == EdgeList(net, node_idx, "value_parents")
      volp == EdgeList(net, node_idx, "volatility_parents")
      Most(n) == IF n < 1 THEN 1 ELSE n
  IN  InsertFloats(net.floats, node_idx,
        {<<"value_prediction_error", Divided(Computed(fn, time), Most(Len(vp.v)))>>,
         <<"volatility_prediction_error",
           IF fn = "prediction_error_continuous_state_node"
           THEN Divided(Computed(fn, time), Most(Len(volp.v)))
           ELSE Computed(fn, time)>>})

\* prediction_error_continuous_state_node and prediction_error_volatile_state_node:
\* the value prediction error is divided by the length of the value-parents
\* list when there is a list, and the volatility prediction error of a
\* continuous-state node by the length of its volatility-parents list.
prediction_error_state_node(net, node_idx, fn, time) ==
  LET vp == EdgeList(net, node_idx, "value_parents")
      volp == EdgeList(net, node_idx, "volatility_parents")
      value_prediction_error ==
        IF is_some(vp) THEN Divided(Computed(fn, time), Len(vp.v)) ELSE Computed(fn, time)
      volatility_prediction_error ==
        IF fn = "prediction_error_continuous_state_node" /\ is_some(volp)
        THEN Divided(Computed(fn, time), Len(volp.v))
        ELSE Computed(fn, time)
  IN  InsertFloats(net.floats, node_idx,
        {<<"value_prediction_error", value_prediction_error>>,
         <<"volatility_prediction_error", volatility_prediction_error>>})

\* The posterior updates of a continuous-state node: the standard and the eHGF
\* update floor the precision, the unbounded one does not.
posterior_update_continuous_state_node(net, node_idx, fn, time) ==
  LET posterior_precision ==
        IF fn = "posterior_update_continuous_state_node_unbounded"
        THEN Computed(fn, time)
        ELSE Floored(Computed(fn, time))
  IN  InsertFloats(net.floats, node_idx,
        {<<"precision", posterior_precision>>, <<"mean", Computed(fn, time)>>})

\* The posterior updates of a volatile-state node: the value level, the
\* prediction errors again, the volatility level; no precision is floored.
posterior_update_volatile_state_node(net, node_idx, fn, time) ==
  InsertFloats(net.floats, node_idx,
    {<<"precision", Computed(fn, time)>>, <<"mean", Computed(fn, time)>>,
     <<"value_prediction_error", Computed(fn, time)>>,
     <<"volatility_prediction_error", Computed(fn, time)>>,
     <<"precision_vol", Computed(fn, time)>>, <<"mean_vol", Computed(fn, time)>>})

\* The scalar attributes after a kernel ran on a node.
kernel_floats(net, node_idx, fn, time) ==
  CASE fn = "prediction_continuous_state_node" ->
         prediction_continuous_state_node(net, node_idx, time)
    [] fn = "prediction_volatile_state_node" ->
         prediction_volatile_state_node(net, node_idx, time)
    [] fn \in {"prediction_error_continuous_state_node",
               "prediction_error_volatile_state_node"} ->
         prediction_error_state_node(net, node_idx, fn, time)
    [] fn \in {"posterior_update_continuous_state_node",
               "posterior_update_continuous_state_node_ehgf",
               "posterior_update_continuous_state_node_unbounded"} ->
         posterior_update_continuous_state_node(net, node_idx, fn, time)
    [] fn \in {"posterior_update_volatile_state_node",
               "posterior_update_volatile_state_node_ehgf",
               "posterior_update_volatile_state_node_unbounded"} ->
         posterior_update_volatile_state_node(net, node_idx, fn, time)
    [] OTHER -> net.floats

\* The number an f64 of an ef-state node stands for: its mean is a literal or
\* an observation.
number(v) == v[2]

\* prediction_error_exponential_state_node: the sufficient statistics (x, x^2)
\* of the node's mean are added to xis.
prediction_error_exponential_state_node(net, node_idx) ==
  LET x == number(net.floats[node_idx]["mean"])
      xis == net.vectors[node_idx]["xis"]
  IN  [net.vectors EXCEPT ![node_idx] = [@ EXCEPT !["xis"] = <<xis[1] + x, xis[2] + x * x>>]]

\* The vector attributes after a kernel ran on a node.
kernel_vectors(net, node_idx, fn) ==
  IF fn = "prediction_error_exponential_state_node"
  THEN prediction_error_exponential_state_node(net, node_idx)
  ELSE net.vectors

\* observation_update: the mean of the node is written when the node has
\* scalar attributes and a mean among them.
observation_update(net, node_idx, observations) ==
  IF node_idx \in DOMAIN net.floats /\ "mean" \in DOMAIN net.floats[node_idx]
  THEN [net.floats EXCEPT ![node_idx] = [@ EXCEPT !["mean"] = Observed(observations)]]
  ELSE net.floats

\* The trajectories input_data starts from: an empty series for every
\* attribute there is.
preallocate(net) ==
  [floats |-> [n \in DOMAIN net.floats |-> [k \in DOMAIN net.floats[n] |-> <<>>]],
   vectors |-> [n \in DOMAIN net.vectors |-> [k \in DOMAIN net.vectors[n] |-> <<>>]]]

\* record pushing onto the series of the keys it preallocated only.
record_preallocated(traj, attrs) ==
  [n \in DOMAIN traj |->
     [k \in DOMAIN traj[n] |->
        IF n \in DOMAIN attrs /\ k \in DOMAIN attrs[n]
        THEN Append(traj[n][k], attrs[n][k]) ELSE traj[n][k]]]

\* traj.entry(key).or_insert_with(Vec::new).push(value) for every key of every
\* node of attrs; a node that has no trajectories yet gets them (or_default).
record(traj, attrs) ==
  [n \in DOMAIN traj \cup DOMAIN attrs |->
     IF n \notin DOMAIN attrs THEN traj[n]
     ELSE LET old == IF n \in DOMAIN traj THEN traj[n] ELSE <<>>
          IN  [k \in DOMAIN old \cup DOMAIN attrs[n] |->
                 IF k \notin DOMAIN attrs[n] THEN old[k]
                 ELSE Append(IF k \in DOMAIN old THEN old[k] ELSE <<>>, attrs[n][k])]]


\* ---------------------------------------------------- the learning sequence

\* The names get_func_map gives the function pointers it knows.
FuncMapNames ==
  {"posterior_update_continuous_state_node", "posterior_update_continuous_state_node_ehgf",
   "posterior_update_continuous_state_node_unbounded", "prediction_continuous_state_node",
   "prediction_error_continuous_state_node", "prediction_error_exponential_state_node",
   "prediction_volatile_state_node", "posterior_update_volatile_state_node",
   "posterior_update_volatile_state_node_ehgf", "posterior_update_volatile_state_node_unbounded",
   "prediction_error_volatile_state_node"}

\* func_map.get(&func).unwrap_or(&"unknown")
func_name(fn) == IF fn \in FuncMapNames THEN fn ELSE "unknown"

\* name.contains(pattern) for the two patterns build_learning_sequence looks for.
name_contains(name, pattern) ==
  CASE pattern = "prediction_error" ->
         name \in {"prediction_error_continuous_state_node",
                   "prediction_error_exponential_state_node",
                   "prediction_error_volatile_state_node"}
    [] pattern = "posterior" ->
         name \in {"posterior_update_continuous_state_node",
                   "posterior_update_continuous_state_node_ehgf",
                   "posterior_update_continuous_state_node_unbounded",
                   "posterior_update_volatile_state_node",
                   "posterior_update_volatile_state_node_ehgf",
                   "posterior_update_volatile_state_node_unbounded"}
    [] OTHER -> FALSE

\* The learning rules of utils/learning.rs; get_func_map knows neither.
LearningFns == {"learning_weights_fixed", "learning_weights_dynamic"}

\* filter_steps keeping every step.
filter_steps_none(steps, inputs_x_idxs_) == steps

\* .filter(|(idx, _)| !inputs_x_idxs.contains(idx))
filter_steps(steps, inputs_x_idxs_) ==
  LET Keep(step) == ~contains(inputs_x_idxs_, step[1]) IN SelectSeq(steps, Keep)

\* learning_turn pushing the posterior step before it flushes the weight updates.
learning_turn_late(st, step, learning_fn) ==
  LET name == func_name(step[2])
      w1 == IF name_contains(name, "prediction_error")
            THEN Append(st.weight_updates, Step(step[1], learning_fn))
            ELSE st.weight_updates
      flush == name_contains(name, "posterior") /\ w1 # <<>>
  IN  [result_updates |-> IF flush THEN Append(st.result_updates, step) \o w1
                          ELSE Append(st.result_updates, step),
       weight_updates |-> IF flush THEN <<>> ELSE w1]

\* learning_turn keeping every weight update for the end of the sequence.
learning_turn_no_flush(st, step, learning_fn) ==
  LET name == func_name(step[2])
  IN  [result_updates |-> Append(st.result_updates, step),
       weight_updates |-> IF name_contains(name, "prediction_error")
                          THEN Append(st.weight_updates, Step(step[1], learning_fn))
                          ELSE st.weight_updates]

\* One turn of the loop `for &(idx, func) in &filtered_updates`.
learning_turn(st, step, learning_fn) ==
  LET name == func_name(step[2])
      w1 == IF name_contains(name, "prediction_error")
            THEN Append(st.weight_updates, Step(step[1], learning_fn))
            ELSE st.weight_updates
      flush == name_contains(name, "posterior") /\ w1 # <<>>
      r1 == IF flush THEN st.result_updates \o w1 ELSE st.result_updates
  IN  [result_updates |-> Append(r1, step),
       weight_updates |-> IF flush THEN <<>> ELSE w1]

RECURSIVE learning_loop(_, _, _)
learning_loop(st, steps, learning_fn) ==
  IF steps = <<>> THEN st
  ELSE learning_loop(learning_turn(st, Head(steps), learning_fn), Tail(steps), learning_fn)

\* build_learning_sequence: the pair (filtered_predictions, result_updates).
build_learning_sequence(predictions, updates, inputs_x_idxs_, learning_fn) ==
  LET filtered_predictions == filter_steps(predictions, inputs_x_idxs_)
      filtered_updates == filter_steps(updates, inputs_x_idxs_)
      st == learning_loop([result_updates |-> <<>>, weight_updates |-> <<>>],
                          filtered_updates, learning_fn)
  IN  [predictions |-> filtered_predictions,
       updates |-> st.result_updates \o st.weight_updates]

\* ------------------------------------------------------- f64 arithmetic

\* An f64 of the learning rules: a finite number <<"q", n, d>> (the fraction
\* n / d in lowest terms, d > 0), an infinity <<"inf", sign, 1>>, or NaN.  The
\* finite numbers are computed exactly; a result larger than MaxFloat in
\* magnitude overflows to an infinity, as one larger than f64::MAX does.
NaN == <<"nan", 0, 1>>

Infinity(sign) == <<"inf", sign, 1>>

Abs(x) == IF x < 0 THEN -x ELSE x

RECURSIVE Gcd(_, _)
Gcd(a, b) == IF b = 0 THEN a ELSE Gcd(b, a % b)

\* The finite number n / d, d > 0, or the infinity it overflows to.
Q(n, d) ==
  IF Abs(n) > MaxFloat * d THEN Infinity(IF n < 0 THEN -1 ELSE 1)
  ELSE LET g == Gcd(Abs(n), d) IN <<"q", n \div g, d \div g>>

is_nan(x) == x[1] = "nan"

is_infinite(x) == x[1] = "inf"

is_finite(x) == x[1] = "q"

\* The sign of a number that is not NaN: -1 or 1 (the sign of zero is +).
sign(x) == IF x[2] < 0 THEN -1 ELSE 1

is_zero(x) == is_finite(x) /\ x[2] = 0

neg(x) == IF is_nan(x) THEN NaN ELSE <<x[1], -x[2], x[3]>>

add(a, b) ==
  CASE is_nan(a) \/ is_nan(b) -> NaN
    [] is_infinite(a) /\ is_infinite(b) -> IF a = b THEN a ELSE NaN
    [] is_infinite(a) -> a
    [] is_infinite(b) -> b
    [] OTHER -> Q(a[2] * b[3] + b[2] * a[3], a[3] * b[3])

sub(a, b) == add(a, neg(b))

mul(a, b) ==
  CASE is_nan(a) \/ is_nan(b) -> NaN
    [] is_infinite(a) \/ is_infinite(b) ->
         IF is_zero(a) \/ is_zero(b) THEN NaN ELSE Infinity(sign(a) * sign(b))
    [] OTHER -> Q(a[2] * b[2], a[3] * b[3])

div(a, b) ==
  CASE is_nan(a) \/ is_nan(b) -> NaN
    [] is_infinite(a) -> IF is_infinite(b) THEN NaN ELSE Infinity(sign(a) * sign(b))
    [] is_infinite(b) -> Q(0, 1)
    [] is_zero(b) -> IF is_zero(a) THEN NaN ELSE Infinity(sign(a))
    [] OTHER -> Q(sign(b) * a[2] * b[3], a[3] * Abs(b[2]))

\* x.abs() < 1e-128: the numbers of the model are zero or far larger.
below_tiny(x) == is_zero(x)

\* ----------------------------------------------------- the learning rules

\* The coupling functions of math.rs with exact values: f, df, d2f.
CouplingFns == {"linear", "relu"}

cf_f(cf, x) ==
  IF cf = "relu" THEN (IF is_nan(x) THEN NaN ELSE IF sign(x) < 0 THEN Q(0, 1) ELSE x)
  ELSE x

cf_df(cf, x) ==
  IF cf = "relu" THEN (IF ~is_nan(x) /\ ~is_zero(x) /\ sign(x) > 0 THEN Q(1, 1) ELSE Q(0, 1))
  ELSE Q(1, 1)

cf_d2f(cf, x) == Q(0, 1)

\* floats.get(&idx).and_then(|f| f.get(key)).unwrap_or(&default)
float_or(net, idx, key, default) ==
  IF idx \in DOMAIN net.floats /\ key \in DOMAIN net.floats[idx]
  THEN net.floats[idx][key] ELSE default

\* The coupling function stored on the child for a parent: the entry of
\* value_coupling_fn_parents at the parent's position in value_parents.
coupling_fn_of(net, child_idx, parent_idx) ==
  LET vp == EdgeList(net, child_idx, "value_parents")
      pos == IF is_some(vp) THEN position(vp.v, parent_idx) ELSE 0
  IN  IF /\ pos # 0
         /\ child_idx \in DOMAIN net.fn_ptrs
         /\ "value_coupling_fn_parents" \in DOMAIN net.fn_ptrs[child_idx]
         /\ pos <= Len(net.fn_ptrs[child_idx]["value_coupling_fn_parents"])
      THEN Some(<<net.fn_ptrs[child_idx]["value_coupling_fn_parents"][pos]>>)
      ELSE None

\* cs[i] of the coupling vector `key` of a node, 1.0 when the node has none.
kappa_of(net, idx, key, i) ==
  IF idx \in DOMAIN net.vectors /\ key \in DOMAIN net.vectors[idx]
  THEN net.vectors[idx][key][i] ELSE Q(1, 1)

\* prospective_precision: the loop over the value children from child i on.
RECURSIVE prospective_precision_loop(_, _, _, _, _)
prospective_precision_loop(net, node_idx, vc_idxs, i, precision) ==
  IF i > Len(vc_idxs) THEN precision
  ELSE LET child_idx == vc_idxs[i]
       IN  IF child_idx \notin DOMAIN net.floats
           THEN prospective_precision_loop(net, node_idx, vc_idxs, i + 1, precision)
           ELSE LET child_expected_precision ==
                      float_or(net, child_idx, "expected_precision", Q(1, 1))
                    kappa == kappa_of(net, node_idx, "value_coupling_children", i)
                    parent_mean == float_or(net, node_idx, "mean", Q(0, 1))
                    cf == coupling_fn_of(net, child_idx, node_idx)
                    g_prime_sq == IF is_some(cf)
                                  THEN mul(cf_df(cf.v[1], parent_mean), cf_df(cf.v[1], parent_mean))
                                  ELSE Q(1, 1)
                    g_second_term ==
                      IF is_some(cf)
                      THEN mul(cf_d2f(cf.v[1], parent_mean),
                               float_or(net, child_idx, "value_prediction_error", Q(0, 1)))
                      ELSE Q(0, 1)
                    term == mul(child_expected_precision,
                                sub(mul(mul(kappa, kappa), g_prime_sq), g_second_term))
                IN  prospective_precision_loop(net, node_idx, vc_idxs, i + 1,
                                               add(precision, term))

prospective_precision(net, node_idx) ==
  LET expected_precision == float_or(net, node_idx, "expected_precision", Q(1, 1))
      vc == EdgeList(net, node_idx, "value_children")
  IN  IF is_none(vc) THEN expected_precision
      ELSE prospective_precision_loop(net, node_idx, vc.v, 1, expected_precision)

\* prospective_mean: the loop over the value children from child i on.
RECURSIVE prospective_mean_loop(_, _, _, _, _, _)
prospective_mean_loop(net, node_idx, node_precision, vc_idxs, i, posterior_mean) ==
  IF i > Len(vc_idxs) THEN posterior_mean
  ELSE LET child_idx == vc_idxs[i]
       IN  IF child_idx \notin DOMAIN net.floats
           THEN prospective_mean_loop(net, node_idx, node_precision, vc_idxs, i + 1,
                                      posterior_mean)
           ELSE LET child_expected_precision ==
                      float_or(net, child_idx, "expected_precision", Q(1, 1))
                    child_vape == float_or(net, child_idx, "value_prediction_error", Q(0, 1))
                    kappa == kappa_of(net, node_idx, "value_coupling_children", i)
                    parent_mean == float_or(net, node_idx, "mean", Q(0, 1))
                    cf == coupling_fn_of(net, child_idx, node_idx)
                    coupling_fn_prime == IF is_some(cf) THEN cf_df(cf.v[1], parent_mean)
                                         ELSE Q(1, 1)
                    term == mul(div(mul(mul(kappa, coupling_fn_prime),
                                        child_expected_precision), node_precision),
                                child_vape)
                IN  prospective_mean_loop(net, node_idx, node_precision, vc_idxs, i + 1,
                                          add(posterior_mean, term))

prospective_mean(net, node_idx, node_precision) ==
  LET expected_mean == float_or(net, node_idx, "expected_mean", Q(0, 1))
      vc == EdgeList(net, node_idx, "value_children")
  IN  IF is_none(vc) THEN expected_mean
      ELSE prospective_mean_loop(net, node_idx, node_precision, vc.v, 1, expected_mean)

\* g(prospective mean) of a parent for a child.
g_value_of(net, node_idx, parent_idx) ==
  LET prosp_precision == prospective_precision(net, parent_idx)
      prosp_mean == prospective_mean(net, parent_idx, prosp_precision)
      cf == coupling_fn_of(net, node_idx, parent_idx)
  IN  IF is_some(cf) THEN cf_f(cf.v[1], prosp_mean) ELSE prosp_mean

\* The rate a learning rule moves the coupling at, before the weighting by the
\* number of parents: the attribute lr (0.01 when absent) of the fixed rule,
\* the precision weighting of the dynamic rule.
learning_rate(net, node_idx, parent_idx, learning_fn) ==
  IF learning_fn = "learning_weights_fixed"
  THEN float_or(net, node_idx, "lr", Q(1, 100))
  ELSE LET child_expected_precision == float_or(net, node_idx, "expected_precision", Q(1, 1))
           parent_expected_precision ==
             float_or(net, parent_idx, "expected_precision", Q(1, 1))
       IN  div(child_expected_precision,
               add(parent_expected_precision, child_expected_precision))

\* The coupling strength before the guard against an infinite value.
moved_coupling(net, node_idx, parent_idx, value_coupling, n_parents, learning_fn) ==
  LET child_mean == float_or(net, node_idx, "mean", Q(0, 1))
      weighting == div(Q(1, 1), Q(n_parents, 1))
      g_value == g_value_of(net, node_idx, parent_idx)
      expected == IF below_tiny(g_value) THEN value_coupling ELSE div(child_mean, g_value)
      expected_coupling == IF is_nan(expected) \/ is_infinite(expected)
                           THEN value_coupling ELSE expected
  IN  add(value_coupling,
          mul(mul(sub(expected_coupling, value_coupling),
                  learning_rate(net, node_idx, parent_idx, learning_fn)),
              weighting))

\* The guard of the learning rules: an infinite strength is discarded.
guard_infinite(new_value_coupling, value_coupling) ==
  IF is_infinite(new_value_coupling) THEN value_coupling ELSE new_value_coupling

\* The strength a turn of the loop of a learning rule hands set_coupling.
new_value_coupling(net, node_idx, parent_idx, value_coupling, n_parents, learning_fn) ==
  guard_infinite(moved_coupling(net, node_idx, parent_idx, value_coupling, n_parents,
                                learning_fn),
                 value_coupling)

\* The loop of a learning rule over zip(value_parents, value_couplings), from
\* turn i on; the couplings were cloned before the loop.
RECURSIVE learning_weights_loop(_, _, _, _, _, _)
learning_weights_loop(net, node_idx, value_parents, value_couplings, i, learning_fn) ==
  IF i > Len(value_parents) \/ i > Len(value_couplings) THEN net
  ELSE learning_weights_loop(
         set_coupling(net, value_parents[i], node_idx,
                      new_value_coupling(net, node_idx, value_parents[i], value_couplings[i],
                                         Len(value_parents), learning_fn)),
         node_idx, value_parents, value_couplings, i + 1, learning_fn)

\* learning_weights_fixed and learning_weights_dynamic
learning_weights(net, node_idx, learning_fn) ==
  LET vp == EdgeList(net, node_idx, "value_parents")
  IN  IF is_none(vp) THEN net
      ELSE LET value_couplings ==
                 IF node_idx \in DOMAIN net.vectors
                    /\ "value_coupling_parents" \in DOMAIN net.vectors[node_idx]
                 THEN net.vectors[node_idx]["value_coupling_parents"]
                 ELSE Repeat(Q(1, 1), Len(vp.v))
           IN  learning_weights_loop(net, node_idx, vp.v, value_couplings, 1, learning_fn)

\* ------------------------------------------------------------ the behaviour

Init ==
  /\ edges = <<>>
  /\ inputs = <<>>
  /\ vectors = <<>>
  /\ floats = <<>>
  /\ fn_ptrs = <<>>
  /\ node_trajectories = NoTrajectories
  /\ update_type \in UpdateTypes
  /\ update_sequence = [predictions |-> <<>>, updates |-> <<>>]
  /\ pc = "build"
  /\ run = NoRun
  /\ inputs_x_idxs = <<>>
  /\ learning_sequence = NoSequence

\* The id the next node gets, and the nodes there are.
NextId == Cardinality(DOMAIN edges)

Existing == DOMAIN edges

Ids == 0..(MaxNodes - 1)

\* A parents list a call declares: absent, empty, or one existing node.
ParentArgs == {None, Some(<<>>)} \cup {Some(<<p>>) : p \in Existing}

\* A children list a call declares: absent, empty, one existing node, the node
\* itself (a cycle), or two existing nodes.
ChildArgs ==
  ParentArgs \cup {Some(<<NextId>>)} \cup {Some(<<a, b>>) : a \in Existing, b \in Existing}

\* The list arguments of a call: <<value_parents, value_children,
\* volatility_parents, volatility_children>>.  A call declares one list, or a
\* value child together with a volatility child.
CallArgs ==
  {<<None, None, None, None>>}
    \cup {<<vp, None, None, None>> : vp \in ParentArgs}
    \cup {<<None, None, volp, None>> : volp \in ParentArgs}
    \cup {<<None, vc, None, None>> : vc \in ChildArgs}
    \cup {<<None, None, None, volc>> : volc \in ChildArgs}
    \cup {<<None, Some(<<a>>), None, Some(<<b>>)>> : a \in Existing, b \in Existing}

AddNodes ==
  /\ pc = "build"
  /\ NextId < MaxNodes
  /\ \E kind \in NodeKinds, a \in CallArgs :
       LET r == add_nodes(Network, kind, a[1], a[2], a[3], a[4])
       IN  /\ edges' = r.edges
           /\ inputs' = r.inputs
           /\ vectors' = r.vectors
           /\ floats' = r.floats
  /\ UNCHANGED <<fn_ptrs, update_type, update_sequence, node_trajectories, calls>>
  /\ pc' = "build"

\* Network::set_update_sequence
SetUpdateSequence ==
  /\ pc = "build"
  /\ update_sequence' = set_update_sequence(Network)
  /\ pc' = "scheduled"
  /\ UNCHANGED <<fn_ptrs, edges, inputs, vectors, floats, update_type, node_trajectories, calls>>

Next == AddNodes \/ SetUpdateSequence

Spec == Init /\ [][Next]_vars

\* Bottom-up construction: every call declares only children, each an existing
\* node (a value list, a volatility list, or both).
ExistingLists ==
  {None, Some(<<>>)} \cup {Some(<<c>>) : c \in Existing}
    \cup {Some(<<a, b>>) : a \in Existing, b \in Existing}

AddNodesBottomUp ==
  /\ pc = "build"
  /\ NextId < MaxNodes
  /\ \E kind \in NodeKinds, vc \in ExistingLists, volc \in ExistingLists :
       LET r == add_nodes(Network, kind, None, vc, None, volc)
       IN  /\ edges' = r.edges
           /\ inputs' = r.inputs
           /\ vectors' = r.vectors
           /\ floats' = r.floats
  /\ UNCHANGED <<fn_ptrs, update_type, update_sequence, node_trajectories, calls>>
  /\ pc' = "build"

NextBottomUp == AddNodesBottomUp \/ SetUpdateSequence

SpecBottomUp == Init /\ [][NextBottomUp]_vars

\* ------------------------------------------------------------ the graph store

\* Network::new with the default update type of the Python constructor.
InitGraph ==
  /\ edges = <<>>
  /\ inputs = <<>>
  /\ vectors = <<>>
  /\ floats = <<>>
  /\ fn_ptrs = <<>>
  /\ node_trajectories = NoTrajectories
  /\ update_type = "eHGF"
  /\ update_sequence = [predictions |-> <<>>, updates |-> <<>>]
  /\ pc = "build"
  /\ run = NoRun
  /\ inputs_x_idxs = <<>>
  /\ learning_sequence = NoSequence

\* A kind add_nodes has no arm for.
UnknownKind == "binary-state"

\* The list arguments of a call that names existing nodes only: one parents
\* list, or a value-children list together with a volatility-children list.
GraphArgs ==
  {<<vp, None, None, None>> : vp \in ParentArgs}
    \cup {<<None, None, volp, None>> : volp \in ParentArgs}
    \cup {<<None, vc, None, volc>> : vc \in ExistingLists, volc \in ParentArgs}

\* Every id of the inputs list is a node, and no id is listed twice.
InputsCreated ==
  \A i \in 1..Len(inputs) :
    /\ inputs[i] < NextId
    /\ \A j \in 1..Len(inputs) : inputs[j] = inputs[i] => i = j

\* add_nodes with any kind.  A call with an unknown kind creates no node: it is
\* made while the inputs list holds created nodes only, once each, which bounds
\* the number of such calls.
AddNodesAnyKind ==
  /\ pc = "build"
  /\ NextId < MaxNodes
  /\ \E kind \in NodeKinds \cup {UnknownKind}, a \in GraphArgs :
       /\ kind = UnknownKind => InputsCreated
       /\ LET r == add_nodes(Network, kind, a[1], a[2], a[3], a[4])
          IN  /\ edges' = r.edges
              /\ inputs' = r.inputs
              /\ vectors' = r.vectors
              /\ floats' = r.floats
  /\ UNCHANGED <<fn_ptrs, update_type, update_sequence, node_trajectories, calls>>
  /\ pc' = "build"

\* The strength a call of set_coupling writes.
CouplingValues == {2}

SetCoupling ==
  /\ pc = "build"
  /\ \E parent_idx \in Ids, child_idx \in Ids, coupling \in CouplingValues :
       vectors' = set_coupling(Network, parent_idx, child_idx, coupling).vectors
  /\ UNCHANGED <<fn_ptrs, edges, inputs, floats, update_type, update_sequence, node_trajectories, calls>>
  /\ pc' = "build"

NextGraph == AddNodesAnyKind \/ SetCoupling

SpecGraph == InitGraph /\ [][NextGraph]_vars

\* ------------------------------------------------------------ running a network

\* The list arguments of a call that builds a network to run: no list, an empty
\* volatility-parents list, or one children list that is empty or names an
\* existing node.
RunArgs ==
  {<<None, None, None, None>>, <<None, Some(<<>>), None, None>>,
   <<None, None, Some(<<>>), None>>}
    \cup {<<None, Some(<<c>>), None, None>> : c \in Existing}
    \cup {<<None, None, None, Some(<<c>>)>> : c \in Existing}

\* add_nodes before or after the sequences were set.
AddNodesRun ==
  /\ pc \in {"build", "scheduled"}
  /\ NextId < MaxNodes
  /\ \E kind \in NodeKinds, a \in RunArgs :
       LET r == add_nodes(Network, kind, a[1], a[2], a[3], a[4])
       IN  /\ edges' = r.edges
           /\ inputs' = r.inputs
           /\ vectors' = r.vectors
           /\ floats' = r.floats
  /\ UNCHANGED <<fn_ptrs, update_type, update_sequence, node_trajectories, pc, calls>>

\* The observations of the calls of input_data: call number c with n_time
\* observations is given (c - 1) * MaxTime + 1, (c - 1) * MaxTime + 2, ...
Observations(c, n_time) == [t \in 1..n_time |-> (c - 1) * MaxTime + t]

\* The time step a kernel runs in: the call of input_data and the index of
\* the observation.
Time == <<run.calls, run.t + 1>>

\* input_data setting the sequences at every call.
sequences_always_set(net) == set_update_sequence(net)

\* The sequences input_data runs: the stored ones, set first when both are empty.
sequences_to_run(net) ==
  IF net.update_sequence.predictions = <<>> /\ net.update_sequence.updates = <<>>
  THEN set_update_sequence(net)
  ELSE net.update_sequence

\* Network::input_data up to its loop over the observations: the sequences are
\* set when both are empty, and cloned; the trajectories are preallocated.  A
\* call over no observation stores them and returns.
InputData ==
  /\ pc \in {"build", "scheduled", "done"}
  /\ run.calls < MaxCalls
  /\ \E n_time \in 0..MaxTime :
       LET seq == sequences_to_run(Network)
           r == [predictions |-> seq.predictions, updates |-> seq.updates,
                 input_data |-> Observations(run.calls + 1, n_time),
                 n_time |-> n_time, t |-> 0, stage |-> "end", i |-> 1, trace |-> <<>>,
                 calls |-> run.calls + 1, node_trajectories |-> preallocate(Network)]
       IN  /\ update_sequence' = seq
           /\ IF n_time = 0
              THEN /\ run' = r
                   /\ pc' = "done"
                   /\ node_trajectories' = r.node_trajectories
              ELSE /\ run' = [r EXCEPT !.stage = first_position(r).stage]
                   /\ pc' = "input_data"
                   /\ node_trajectories' = node_trajectories
  /\ UNCHANGED <<fn_ptrs, edges, inputs, vectors, floats, update_type, inputs_x_idxs,
                 learning_sequence>>

\* One turn of the loop over the prediction steps.
CallPrediction ==
  /\ pc = "input_data"
  /\ run.stage = "predictions"
  /\ LET step == run.predictions[run.i]
         pos == next_position(run, "predictions", run.i)
     IN  /\ ~kernel_panics(Network, step[1], step[2])
         /\ floats' = kernel_floats(Network, step[1], step[2], Time)
         /\ vectors' = kernel_vectors(Network, step[1], step[2])
         /\ run' = [run EXCEPT !.trace = Append(@, Call("prediction", step[1], step[2])),
                               !.stage = pos.stage, !.i = pos.i]
  /\ UNCHANGED <<fn_ptrs, edges, inputs, update_type, update_sequence, node_trajectories, pc,
                 inputs_x_idxs, learning_sequence>>

\* The turn of the loop over the observations: network.inputs[i] panics when the
\* inputs list is too short.
InjectObservation ==
  /\ pc = "input_data"
  /\ run.stage = "observations"
  /\ IF run.i <= Len(inputs)
     THEN LET pos == next_position(run, "observations", run.i)
          IN  /\ floats' = observation_update(Network, inputs[run.i],
                                              run.input_data[run.t + 1])
              /\ run' = [run EXCEPT !.trace = Append(@, Call("observation", inputs[run.i],
                                                              "observation_update")),
                                    !.stage = pos.stage, !.i = pos.i]
              /\ pc' = pc
     ELSE /\ pc' = "panicked"
          /\ run' = run
          /\ floats' = floats
  /\ UNCHANGED <<fn_ptrs, edges, inputs, vectors, update_type, update_sequence, node_trajectories,
                 inputs_x_idxs, learning_sequence>>

\* One turn of the loop over the update steps.
CallUpdate ==
  /\ pc = "input_data"
  /\ run.stage = "updates"
  /\ LET step == run.updates[run.i]
         pos == next_position(run, "updates", run.i)
     IN  /\ ~kernel_panics(Network, step[1], step[2])
         /\ floats' = kernel_floats(Network, step[1], step[2], Time)
         /\ vectors' = kernel_vectors(Network, step[1], step[2])
         /\ run' = [run EXCEPT !.trace = Append(@, Call("update", step[1], step[2])),
                               !.stage = pos.stage, !.i = pos.i]
  /\ UNCHANGED <<fn_ptrs, edges, inputs, update_type, update_sequence, node_trajectories, pc,
                 inputs_x_idxs, learning_sequence>>

\* A kernel that does not find an attribute it reads panics (expect).
KernelPanics ==
  /\ pc = "input_data"
  /\ run.stage \in {"predictions", "updates"}
  /\ LET step == run[run.stage][run.i]
     IN  kernel_panics(Network, step[1], step[2])
  /\ pc' = "panicked"
  /\ UNCHANGED <<fn_ptrs, edges, inputs, vectors, floats, update_type, update_sequence,
                 node_trajectories, calls>>

\* The end of a turn of the loop over the observations: the trajectories are
\* recorded, and the next time step begins or the call stores them and returns.
RecordTrajectories ==
  /\ pc = "input_data"
  /\ run.stage = "record"
  /\ LET recorded == [floats |-> record(run.node_trajectories.floats, floats),
                      vectors |-> record(run.node_trajectories.vectors, vectors)]
     IN  IF run.t + 1 < run.n_time
         THEN /\ run' = [run EXCEPT !.t = @ + 1, !.stage = first_position(run).stage,
                                    !.i = 1, !.trace = <<>>,
                                    !.node_trajectories = recorded]
              /\ pc' = pc
              /\ node_trajectories' = node_trajectories
         ELSE /\ run' = [run EXCEPT !.t = @ + 1, !.stage = "end",
                                    !.node_trajectories = recorded]
              /\ pc' = "done"
              /\ node_trajectories' = recorded
  /\ UNCHANGED <<fn_ptrs, edges, inputs, vectors, floats, update_type, update_sequence,
                 inputs_x_idxs, learning_sequence>>

\* set_update_sequence called by the user before the run, for the first time
\* or again.
SetUpdateSequenceRun ==
  /\ pc \in {"build", "scheduled"}
  /\ update_sequence' = set_update_sequence(Network)
  /\ pc' = "scheduled"
  /\ UNCHANGED <<fn_ptrs, edges, inputs, vectors, floats, update_type, node_trajectories, calls>>

NextRun ==
  \/ AddNodesRun
  \/ SetUpdateSequenceRun
  \/ InputData
  \/ CallPrediction
  \/ InjectObservation
  \/ CallUpdate
  \/ KernelPanics
  \/ RecordTrajectories

SpecRun == InitGraph /\ [][NextRun]_vars

\* --------------------------------------- build_learning_sequence on its own

\* The sequences over S of at most n entries.
SeqsUpTo(S, n) == UNION {[1..k -> S] : k \in 0..n}

\* The steps an update sequence is drawn from: a posterior and a
\* prediction-error kernel at every id.
UpdateSteps ==
  {Step(idx, fn) : idx \in Ids,
                   fn \in {"posterior_update_continuous_state_node",
                           "prediction_error_continuous_state_node"}}

PredictionSteps == {Step(idx, "prediction_continuous_state_node") : idx \in Ids}

\* The predictor lists: none, one id, the two lowest ids, or every id.
PredictorLists ==
  {<<>>, <<0, 1>>, SortedKeys(Ids)} \cup {<<x>> : x \in Ids}

\* The arguments of a call of build_learning_sequence.
InitLearn ==
  /\ edges = <<>>
  /\ inputs = <<>>
  /\ vectors = <<>>
  /\ floats = <<>>
  /\ fn_ptrs = <<>>
  /\ node_trajectories = NoTrajectories
  /\ update_type = "eHGF"
  /\ update_sequence \in [predictions : SeqsUpTo(PredictionSteps, MaxPredictions),
                          updates : SeqsUpTo(UpdateSteps, MaxSteps)]
  /\ pc = "build"
  /\ run = NoRun
  /\ inputs_x_idxs \in PredictorLists
  /\ learning_sequence = NoSequence

BuildLearningSequence ==
  /\ pc = "build"
  /\ \E learning_fn \in LearningFns :
       learning_sequence' = build_learning_sequence(update_sequence.predictions,
                              update_sequence.updates, inputs_x_idxs, learning_fn)
  /\ pc' = "learning"
  /\ UNCHANGED <<fn_ptrs, edges, inputs, vectors, floats, update_type, update_sequence,
                 node_trajectories, run, inputs_x_idxs>>

NextLearn == BuildLearningSequence

SpecLearn == InitLearn /\ [][NextLearn]_vars

\* ------------------------------- the learning sequence of a scheduled graph

\* build_learning_sequence on the sequences set_update_sequence stored.
BuildLearningScheduled ==
  /\ pc = "scheduled"
  /\ \E learning_fn \in LearningFns, predictors \in PredictorLists :
       /\ inputs_x_idxs' = predictors
       /\ learning_sequence' = build_learning_sequence(update_sequence.predictions,
                                  update_sequence.updates, predictors, learning_fn)
  /\ pc' = "learning"
  /\ UNCHANGED <<fn_ptrs, edges, inputs, vectors, floats, update_type, update_sequence,
                 node_trajectories, run>>

NextLearnGraph == AddNodesBottomUp \/ SetUpdateSequence \/ BuildLearningScheduled

SpecLearnGraph == InitGraph /\ [][NextLearnGraph]_vars

\* ------------------------------------------------ a learning rule on its own

\* The networks a learning rule is called on: child 0 under parent 1, under
\* parents 1 and 2, or under parent 1 that is itself under parent 2; every edge
\* is listed on both sides.
LearnEdges ==
  LET leaf(vp) == AdjacencyLists("continuous-state", Some(vp), None, None, None)
      top(c) == AdjacencyLists("continuous-state", None, Some(<<c>>), None, None)
      middle == AdjacencyLists("continuous-state", Some(<<2>>), Some(<<0>>), None, None)
  IN  {[n \in 0..1 |-> IF n = 0 THEN leaf(<<1>>) ELSE top(0)],
       [n \in 0..2 |-> IF n = 0 THEN leaf(<<1, 2>>) ELSE top(0)],
       [n \in 0..2 |-> IF n = 0 THEN leaf(<<1>>) ELSE IF n = 1 THEN middle ELSE top(1)]}

\* The strengths of an edge, the same on both sides.
Couplings == {Q(1, 1), Q(2, 1), Q(-MaxFloat, 1)}

\* The values of the scalar attributes the learning rules read.
ChildMeans == {Q(0, 1), Q(1, 1), Q(2, 1), Q(4, 1), Q(MaxFloat, 1)}

LearningRates == {Q(0, 1), Q(1, 1), Infinity(1), NaN}

Precisions == {Q(0, 1), Q(1, 1)}

ParentMeans == {Q(0, 1), Q(1, 1), Q(2, 1)}

\* The scalar attributes of the child: the attribute lr is there or not.
ChildFloats ==
  [mean : ChildMeans, expected_precision : Precisions,
   value_prediction_error : {Q(0, 1), Q(1, 1)}]
    \cup [mean : ChildMeans, expected_precision : Precisions,
          value_prediction_error : {Q(0, 1), Q(1, 1)}, lr : LearningRates]

ParentFloats ==
  [mean : {Q(-1, 1), Q(1, 1)}, expected_mean : ParentMeans, expected_precision : Precisions]

\* The coupling vectors add_nodes stores for the edges of adj, node n being
\* the adjacency lists adj[n] and k[p] the strength of the edge under parent p
\* (every parent of LearnEdges has one child).
LearnVectors(adj, k) ==
  [n \in DOMAIN adj |->
     LET vp == adj[n].value_parents
         to_parents == [i \in 1..Len(vp.v) |-> k[vp.v[i]]]
     IN  CASE is_some(vp) /\ is_some(adj[n].value_children) ->
                [key \in {"value_coupling_parents", "value_coupling_children"} |->
                   IF key = "value_coupling_parents" THEN to_parents ELSE <<k[n]>>]
           [] is_some(vp) -> [key \in {"value_coupling_parents"} |-> to_parents]
           [] OTHER -> [key \in {"value_coupling_children"} |-> <<k[n]>>]]

\* A network with one or two value edges, the attributes the learning rules
\* read, and a coupling function stored on the child for its parents or none.
InitLearnRule ==
  /\ edges \in LearnEdges
  /\ inputs = <<0>>
  /\ \E k \in [1..(Cardinality(DOMAIN edges) - 1) -> Couplings] :
       vectors = LearnVectors(edges, k)
  /\ \E c \in ChildFloats, q \in ParentFloats :
       floats = [n \in DOMAIN edges |-> IF n = 0 THEN c ELSE q]
  /\ \E cf \in CouplingFns :
       fn_ptrs \in {<<>>,
                    [n \in {0} |-> [key \in {"value_coupling_fn_parents"} |->
                                      Repeat(cf, Len(edges[0].value_parents.v))]]}
  /\ update_type = "eHGF"
  /\ update_sequence = [predictions |-> <<>>, updates |-> <<>>]
  /\ node_trajectories = NoTrajectories
  /\ pc = "build"
  /\ run = NoRun
  /\ inputs_x_idxs = <<>>
  /\ learning_sequence = NoSequence

\* A call of a learning rule on a node; pc keeps the rule that ran.
LearnWeights ==
  /\ pc = "build"
  /\ \E node_idx \in DOMAIN edges, learning_fn \in LearningFns :
       \E net \in {learning_weights(Network, node_idx, learning_fn)} :
         /\ edges' = net.edges
         /\ inputs' = net.inputs
         /\ vectors' = net.vectors
         /\ floats' = net.floats
         /\ fn_ptrs' = net.fn_ptrs
         /\ update_type' = net.update_type
         /\ update_sequence' = net.update_sequence
         /\ pc' = learning_fn
  /\ UNCHANGED <<node_trajectories, calls>>

NextLearnRule == LearnWeights

SpecLearnRule == InitLearnRule /\ [][NextLearnRule]_vars

\* ------------------------------------------------ scheduling on demand

\* An update type the scheduler has no arm for.
UnknownUpdateType == "ehgf"

\* Network::new with any update type.
InitSchedule ==
  /\ edges = <<>>
  /\ inputs = <<>>
  /\ vectors = <<>>
  /\ floats = <<>>
  /\ fn_ptrs = <<>>
  /\ node_trajectories = NoTrajectories
  /\ update_type \in UpdateTypes \cup {UnknownUpdateType}
  /\ update_sequence = [predictions |-> <<>>, updates |-> <<>>]
  /\ pc = "build"
  /\ run = NoRun
  /\ inputs_x_idxs = <<>>
  /\ learning_sequence = NoSequence

\* Network::set_update_sequence: each call of keys() yields the ids in an order
\* of its own.
SetUpdateSequenceAnyOrder ==
  /\ pc = "build"
  /\ LET orders == KeyOrders(DOMAIN edges)
     IN  update_sequence' \in
           [predictions : {predictions_from_keys(Network, keys) : keys \in orders},
            updates : {updates_from_keys(Network, pe_keys, po_keys) :
                         pe_keys \in orders, po_keys \in orders}]
  /\ pc' = "scheduled"
  /\ UNCHANGED <<fn_ptrs, edges, inputs, vectors, floats, update_type, node_trajectories, calls>>

NextSchedule == AddNodesRun \/ SetCoupling \/ SetUpdateSequenceAnyOrder

SpecSchedule == InitSchedule /\ [][NextSchedule]_vars

\* ------------------------------------------------- claims on the planner

Nodes == DOMAIN edges

ListSet(o) == IF o.some THEN Range(o.v) ELSE {}

ChildrenOf(n) == ListSet(edges[n].value_children) \cup ListSet(edges[n].volatility_children)

ParentsOf(n) == ListSet(edges[n].value_parents) \cup ListSet(edges[n].volatility_parents)

PosteriorKernels ==
  {"posterior_update_continuous_state_node", "posterior_update_continuous_state_node_ehgf",
   "posterior_update_continuous_state_node_unbounded", "posterior_update_volatile_state_node",
   "posterior_update_volatile_state_node_ehgf", "posterior_update_volatile_state_node_unbounded"}

PredictionErrorKernels ==
  {"prediction_error_continuous_state_node", "prediction_error_volatile_state_node",
   "prediction_error_exponential_state_node"}

\* The positions of the steps of node n in a sequence whose kernel is in K.
StepsOf(seq, n, K) == {i \in 1..Len(seq) : seq[i][1] = n /\ seq[i][2] \in K}

PoPos(n) == StepsOf(update_sequence.updates, n, PosteriorKernels)

PePos(n) == StepsOf(update_sequence.updates, n, PredictionErrorKernels)

\* C1: in the update sequence of any graph, the posterior step of a node comes
\* after the prediction-error step of each of its value and volatility children
\* that has one, and the prediction-error step of a node comes after the node's
\* own posterior step when it has one.
C1_PosteriorAfterChildren ==
  pc = "scheduled" =>
    \A n \in Nodes :
      /\ \A c \in ChildrenOf(n) : \A i \in PoPos(n) : \A j \in PePos(c) : j < i
      /\ \A i \in PoPos(n) : \A j \in PePos(n) : i < j

\* A node with a posterior step and a prediction-error step of its own, one of
\* whose children has a prediction-error step.
C1_Witness ==
  /\ pc = "scheduled"
  /\ \E n \in Nodes : \E c \in ChildrenOf(n) :
       PoPos(n) # {} /\ PePos(n) # {} /\ PePos(c) # {}

PredictingKinds == {"continuous-state", "volatile-state"}

\* C2: in the prediction sequence every emitted node comes after each of its
\* parents that exists in the graph (a parent that is emitted stands earlier in
\* the sequence; an ef-state parent is removed without a step), and every node
\* the loop takes is the lowest id among the nodes none of whose parents is
\* still waiting; the sequence lists the taken nodes that have a prediction
\* kernel, in the order they were taken.
C2_PredictionOrder ==
  pc = "scheduled" =>
    LET P == update_sequence.predictions
        R == predictions_run(Network).removed
        Remaining(k) == Nodes \ {R[j] : j \in 1..(k - 1)}
        Ready(S) == {m \in S : ParentsOf(m) \cap S = {}}
        Predicts(m) == edges[m].node_type \in PredictingKinds
    IN  /\ \A i \in 1..Len(P) : \A p \in ParentsOf(P[i][1]) \cap Nodes :
             \/ \E j \in 1..(i - 1) : P[j][1] = p
             \/ ~Predicts(p)
        /\ \A k \in 1..Len(R) :
             /\ R[k] \in Ready(Remaining(k))
             /\ \A m \in Ready(Remaining(k)) : R[k] <= m
        /\ [i \in 1..Len(P) |-> P[i][1]] = SelectSeq(R, Predicts)

\* A node emitted after a lower id was held back: the node with the higher id is
\* the parent.
C2_Witness ==
  /\ pc = "scheduled"
  /\ \E i, j \in 1..Len(update_sequence.predictions) :
       /\ i < j
       /\ update_sequence.predictions[i][1] > update_sequence.predictions[j][1]
       /\ update_sequence.predictions[i][1] \in ParentsOf(update_sequence.predictions[j][1])

\* The posterior kernel of a node of the given kind under the network's update
\* type; vol tells whether the node counts as having volatility children.
KernelFor(kind, vol) ==
  IF kind = "continuous-state"
  THEN IF vol
       THEN CASE update_type = "eHGF" -> "posterior_update_continuous_state_node_ehgf"
              [] update_type = "unbounded" -> "posterior_update_continuous_state_node_unbounded"
              [] update_type = "standard" -> "posterior_update_continuous_state_node"
       ELSE "posterior_update_continuous_state_node"
  ELSE CASE update_type = "eHGF" -> "posterior_update_volatile_state_node_ehgf"
         [] update_type = "unbounded" -> "posterior_update_volatile_state_node_unbounded"
         [] update_type = "standard" -> "posterior_update_volatile_state_node"

\* C7: every posterior step is the kernel of (kind, update_type, has volatility
\* children): a continuous-state node with at least one volatility child gets
\* the continuous kernel of the update type, one without volatility children the
\* standard continuous kernel, a volatile-state node the volatile kernel of the
\* update type; an ef-state node has no posterior step.
C7_KernelByChildren ==
  pc = "scheduled" =>
    \A i \in 1..Len(update_sequence.updates) :
      LET n == update_sequence.updates[i][1]
          fn == update_sequence.updates[i][2]
      IN  fn \in PosteriorKernels =>
            /\ edges[n].node_type \in PredictingKinds
            /\ fn = KernelFor(edges[n].node_type, ListSet(edges[n].volatility_children) # {})

\* The number of steps of node n in the update sequence with a kernel of K.
Count(n, K) == Cardinality(StepsOf(update_sequence.updates, n, K))

\* C8: in a graph built bottom-up the update sequence has exactly one posterior
\* step for every continuous-state or volatile-state node that is not an input
\* and none for an input, exactly one prediction-error step for every such node
\* with at least one parent and none for a node without parents, and exactly one
\* exponential prediction-error step for every ef-state node.
C8_OneStepPerNode ==
  pc = "scheduled" =>
    \A n \in Nodes :
      IF edges[n].node_type \in PredictingKinds
      THEN /\ Count(n, PosteriorKernels) = (IF contains(inputs, n) THEN 0 ELSE 1)
           /\ Count(n, PredictionErrorKernels) = (IF ParentsOf(n) # {} THEN 1 ELSE 0)
      ELSE Count(n, {"prediction_error_exponential_state_node"}) = 1

\* ------------------------------------------------- claims on the graph store

\* The coupling vector `key` of node n in a vectors map, empty when it has none.
VecOf(vecs, n, key) ==
  IF n \in DOMAIN vecs /\ key \in DOMAIN vecs[n] THEN vecs[n][key] ELSE <<>>

\* Every entry of a parents list has an entry in the parent's children list with
\* the same coupling strength.
Symmetric(pfield, cfield, pkey, ckey) ==
  \A c \in Nodes :
    edges[c][pfield].some =>
      \A i \in 1..Len(edges[c][pfield].v) :
        LET p == edges[c][pfield].v[i]
        IN  /\ p \in Nodes
            /\ edges[p][cfield].some
            /\ \E j \in 1..Len(edges[p][cfield].v) :
                 /\ edges[p][cfield].v[j] = c
                 /\ i <= Len(VecOf(vectors, c, pkey))
                 /\ j <= Len(VecOf(vectors, p, ckey))
                 /\ VecOf(vectors, c, pkey)[i] = VecOf(vectors, p, ckey)[j]

\* C4: edge symmetry is an invariant: after any add_nodes calls that name
\* existing nodes only and any set_coupling calls, for every node c and position
\* i with p = c.value_parents[i] there is a position j with p.value_children[j] =
\* c and c.value_coupling_parents[i] = p.value_coupling_children[j]; the same for
\* the volatility lists.
C4_EdgeSymmetry ==
  /\ Symmetric("value_parents", "value_children",
               "value_coupling_parents", "value_coupling_children")
  /\ Symmetric("volatility_parents", "volatility_children",
               "volatility_coupling_parents", "volatility_coupling_children")

\* The number of times x stands in a sequence.
Occurrences(s, x) == Cardinality({i \in 1..Len(s) : s[i] = x})

\* A step that created node n with the children list cfield: every named child
\* has n appended to its parents list and 1.0 to its coupling-parents vector,
\* once per time it is named, and n's coupling-children vector is all 1.0.
Linked(n, cfield, pfield, ckey, pkey) ==
  LET l == edges'[n][cfield]
  IN  l.some =>
        /\ VecOf(vectors', n, ckey) = Repeat(1, Len(l.v))
        /\ \A c \in Range(l.v) :
             LET k == Occurrences(l.v, c)
                 oldp == IF edges[c][pfield].some THEN edges[c][pfield].v ELSE <<>>
             IN  /\ edges'[c][pfield] = Some(oldp \o Repeat(n, k))
                 /\ VecOf(vectors', c, pkey) = VecOf(vectors, c, pkey) \o Repeat(1, k)

\* C5: when add_nodes creates a continuous-state or volatile-state node n whose
\* value_children (for continuous-state also volatility_children) name existing
\* nodes, then for each named child n is appended as the last entry of the
\* child's parents list, the child's coupling-parents vector grows by exactly
\* one entry 1.0, and n's coupling-children vector holds one 1.0 per named child.
C5_ChildrenLinked ==
  [][(/\ Cardinality(DOMAIN edges') = NextId + 1
      /\ edges'[NextId].node_type \in PredictingKinds)
       => /\ Linked(NextId, "value_children", "value_parents",
                    "value_coupling_children", "value_coupling_parents")
          /\ edges'[NextId].node_type = "continuous-state"
               => Linked(NextId, "volatility_children", "volatility_parents",
                         "volatility_coupling_children", "volatility_coupling_parents")]_vars

\* A child that already had a parent and was then named as a child of a new
\* node n: n is the last of its parents, with a coupling strength of 1.0.
C5_Witness ==
  \E n \in Nodes : \E c \in ListSet(edges[n].value_children) \cap Nodes :
    /\ c < n
    /\ edges[n].node_type \in PredictingKinds
    /\ edges[c].value_parents.some
    /\ Len(edges[c].value_parents.v) >= 2
    /\ edges[c].value_parents.v[Len(edges[c].value_parents.v)] = n
    /\ Len(VecOf(vectors, c, "value_coupling_parents")) = Len(edges[c].value_parents.v)
    /\ VecOf(vectors, c, "value_coupling_parents")[Len(edges[c].value_parents.v)] = 1
    /\ VecOf(vectors, n, "value_coupling_children") = Repeat(1, Len(edges[n].value_children.v))

\* C6: after any add_nodes calls the inputs list holds exactly the ids of the
\* existing nodes whose stored value_children and volatility_children are both
\* absent, each once and in insertion order (the order of the ids); no id of the
\* list refers to a node that was not created.
C6_InputsAreChildless ==
  LET Childless(n) ==
        is_none(edges[n].value_children) /\ is_none(edges[n].volatility_children)
  IN  inputs = SelectSeq(SortedKeys(Nodes), Childless)

\* --------------------------------------- claims on the learning sequence

\* The positions of a sequence whose step has a kernel of K.
KernelPos(seq, K) == {i \in 1..Len(seq) : seq[i][2] \in K}

\* The k-th smallest element of a set of positions.
RECURSIVE Nth(_, _)
Nth(S, k) ==
  LET m == CHOOSE x \in S : \A y \in S : x <= y
  IN  IF k = 1 THEN m ELSE Nth(S \ {m}, k - 1)

\* C10: in the update sequence build_learning_sequence returns, every retained
\* prediction-error step for node c has exactly one learning step for c, after
\* that prediction-error step and before the first posterior step that follows
\* it, or in the closing run of learning steps when no posterior step follows;
\* the learning steps keep the order of their prediction-error steps, and a
\* sequence without prediction-error steps gets no learning step.  The steps
\* that are not learning steps are the retained steps of the given sequence.
C10_LearningAfterPredictionError ==
  pc = "learning" =>
    LET R == learning_sequence.updates
        Keep(step) == ~contains(inputs_x_idxs, step[1])
        Original(step) == step[2] \notin LearningFns
        PE == KernelPos(R, PredictionErrorKernels)
        PO == KernelPos(R, PosteriorKernels)
        L == KernelPos(R, LearningFns)
    IN  /\ SelectSeq(R, Original) = SelectSeq(update_sequence.updates, Keep)
        /\ Cardinality(L) = Cardinality(PE)
        /\ \A k \in 1..Cardinality(PE) :
             LET e == Nth(PE, k)
                 l == Nth(L, k)
                 After == {q \in PO : q > e}
             IN  /\ R[l][1] = R[e][1]
                 /\ e < l
                 /\ \A q \in After : l < q
                 /\ After = {} => \A j \in (l + 1)..Len(R) : j \in L

\* Two learning steps flushed together before a posterior step, and a learning
\* step closing the sequence after a prediction-error step no posterior follows.
C10_Witness ==
  /\ pc = "learning"
  /\ LET R == learning_sequence.updates
     IN  /\ \E i \in 1..Len(R) :
              /\ i + 4 <= Len(R)
              /\ R[i][2] \in PredictionErrorKernels
              /\ R[i + 1][2] \in PredictionErrorKernels
              /\ R[i + 2][2] \in LearningFns /\ R[i + 2][1] = R[i][1]
              /\ R[i + 3][2] \in LearningFns /\ R[i + 3][1] = R[i + 1][1]
              /\ R[i][1] # R[i + 1][1]
              /\ R[i + 4][2] \in PosteriorKernels
         /\ Len(R) >= 2
         /\ R[Len(R)][2] \in LearningFns
         /\ R[Len(R) - 1][2] \in PredictionErrorKernels
         /\ inputs_x_idxs # <<>>

\* ----------------------------------------------------- claims on a run

\* s is the beginning of t.
IsPrefix(s, t) == Len(s) <= Len(t) /\ \A k \in 1..Len(s) : s[k] = t[k]

\* The calls of one time step, from the sequences the network stores: the
\* prediction steps in list order, the injection of the observation into the
\* first input, the update steps in list order.
StepCalls(kind, seq) == [k \in 1..Len(seq) |-> Call(kind, seq[k][1], seq[k][2])]

TimeStepCalls ==
  StepCalls("prediction", update_sequence.predictions)
    \o (IF inputs = <<>> THEN <<>>
        ELSE <<Call("observation", inputs[1], "observation_update")>>
               \o StepCalls("update", update_sequence.updates))

\* C3: within every time step of input_data, belief_propagation runs the steps
\* of the prediction sequence in list order, then the observation injection,
\* then the steps of the update sequence in list order: what has run so far is
\* always a beginning of that list, a time step that ends has run all of it, and
\* every time step of the call runs the two sequences the network stores.
C3_PredictionsThenObservationsThenUpdates ==
  pc \in {"input_data", "panicked", "done"} =>
    /\ IsPrefix(run.trace, TimeStepCalls)
    /\ (run.stage = "record" \/ (run.stage = "end" /\ run.n_time > 0)) =>
         /\ inputs # <<>>
         /\ run.trace = TimeStepCalls

\* The second time step of a run has ended after two prediction steps, the
\* injection and at least two update steps.
C3_Witness ==
  /\ pc = "input_data"
  /\ run.stage = "record"
  /\ run.t = 1
  /\ Len(update_sequence.predictions) >= 2
  /\ Len(update_sequence.updates) >= 2
  /\ Len(run.trace) = Len(update_sequence.predictions) + 1 + Len(update_sequence.updates)

ValueEdge(p, c) ==
  /\ p \in Nodes /\ c \in Nodes
  /\ edges[c].value_parents.some /\ contains(edges[c].value_parents.v, p)
  /\ edges[p].value_children.some /\ contains(edges[p].value_children.v, c)

\* The coupling entries of a vectors map: <<node, key, position>>.
CouplingEntries(vecs) ==
  UNION {{<<n, key, i>> : i \in 1..Len(VecOf(vecs, n, key))} :
           n \in DOMAIN vecs,
           key \in {"value_coupling_parents", "value_coupling_children",
                    "volatility_coupling_parents", "volatility_coupling_children"}}

\* What set_coupling(p, c, k) is to do in a step: with the edge, k stands at the
\* position of p in c's value_coupling_parents and at the position of c in p's
\* value_coupling_children, and every other coupling entry is as before; without
\* the edge, nothing changes.
CouplingWritten(p, c, k) ==
  IF ValueEdge(p, c)
  THEN LET ci == <<c, "value_coupling_parents", position(edges[c].value_parents.v, p)>>
           pi == <<p, "value_coupling_children", position(edges[p].value_children.v, c)>>
       IN  /\ VecOf(vectors', ci[1], ci[2])[ci[3]] = k
           /\ VecOf(vectors', pi[1], pi[2])[pi[3]] = k
           /\ CouplingEntries(vectors') = CouplingEntries(vectors)
           /\ \A e \in CouplingEntries(vectors) \ {ci, pi} :
                VecOf(vectors', e[1], e[2])[e[3]] = VecOf(vectors, e[1], e[2])[e[3]]
  ELSE vectors' = vectors

\* C12: set_coupling(parent, child, k) writes k at the position of parent in
\* child's value_coupling_parents and at the position of child in parent's
\* value_coupling_children and changes no other coupling entry of any node; when
\* the (parent, child) value edge does not exist the network is left unchanged.
C12_SetCouplingFrame ==
  [][(edges' = edges /\ inputs' = inputs) =>
       \A p \in Ids, c \in Ids, k \in CouplingValues :
         vectors' = set_coupling(Network, p, c, k).vectors => CouplingWritten(p, c, k)]_vars

\* ------------------------------------------------- claims on the trajectories

\* Every attribute of attrs has a series of n entries in traj.
SeriesOf(traj, attrs, n) ==
  \A node \in DOMAIN attrs :
    /\ node \in DOMAIN traj
    /\ \A key \in DOMAIN attrs[node] :
         key \in DOMAIN traj[node] /\ Len(traj[node][key]) = n

\* Entry t of every series of new is the value of the attribute in attrs, and
\* the entries before it are those of old.
EntryOf(old, new, attrs, t) ==
  \A node \in DOMAIN attrs : \A key \in DOMAIN attrs[node] :
    /\ node \in DOMAIN new /\ key \in DOMAIN new[node]
    /\ Len(new[node][key]) >= t
    /\ new[node][key][t] = attrs[node][key]
    /\ (node \in DOMAIN old /\ key \in DOMAIN old[node]) =>
         \A j \in 1..Len(old[node][key]) :
           j < t => new[node][key][j] = old[node][key][j]

\* C13: after a run over n time steps node_trajectories holds, for every scalar
\* and vector attribute a node has at the end of the run, a series of exactly
\* n entries (none after a run over zero time steps, and n again after a later
\* run, whatever was stored before); the entry recorded at the end of time step
\* t is the value the attribute has then, and the stored trajectories are the
\* ones the run recorded.
C13_TrajectoriesRecorded ==
  [][/\ (pc = "input_data" /\ run.stage = "record") =>
          /\ EntryOf(run.node_trajectories.floats, run'.node_trajectories.floats,
                     floats, run.t + 1)
          /\ EntryOf(run.node_trajectories.vectors, run'.node_trajectories.vectors,
                     vectors, run.t + 1)
     /\ pc' = "done" =>
          /\ node_trajectories' = run'.node_trajectories
          /\ SeriesOf(node_trajectories'.floats, floats', run'.n_time)
          /\ SeriesOf(node_trajectories'.vectors, vectors', run'.n_time)]_vars

\* A second run, over one observation, that follows a run over two: the ef-state
\* node that is the first input has summed the three observations 1, 2, 3 and
\* has one entry in its series, and a continuous-state node has one entry for
\* an attribute its prediction-error kernel inserted.
C13_Witness ==
  /\ pc = "done"
  /\ run.calls = 2
  /\ run.n_time = 1
  /\ \E n \in DOMAIN node_trajectories.vectors :
       /\ "xis" \in DOMAIN node_trajectories.vectors[n]
       /\ node_trajectories.vectors[n]["xis"] = << <<6, 15>> >>
  /\ \E m \in DOMAIN node_trajectories.floats :
       /\ edges[m].node_type = "continuous-state"
       /\ "value_prediction_error" \in DOMAIN node_trajectories.floats[m]
       /\ node_trajectories.floats[m]["value_prediction_error"]
            = <<Computed("prediction_error_continuous_state_node", <<2, 1>>)>>

\* The continuous-state nodes of the inputs list.
ContinuousInputs ==
  {n \in Range(inputs) : n \in DOMAIN edges /\ edges[n].node_type = "continuous-state"}

\* C14: after a run, the mean recorded at time step t for every continuous-state
\* input node is the observation x[t].
C14_ObservationInEveryInput ==
  pc = "done" =>
    \A n \in ContinuousInputs : \A t \in 1..run.n_time :
      node_trajectories.floats[n]["mean"][t] = Observed(run.input_data[t])

PrecisionKeys == {"precision", "expected_precision", "precision_vol", "expected_precision_vol"}

\* C15: every recorded precision, expected_precision, precision_vol and
\* expected_precision_vol is the value add_nodes gave the attribute or a value
\* a kernel floored at 1e-128 before writing it.
C15_PrecisionsFloored ==
  \A n \in DOMAIN node_trajectories.floats :
    \A key \in DOMAIN node_trajectories.floats[n] \cap PrecisionKeys :
      \A t \in 1..Len(node_trajectories.floats[n][key]) :
        LET v == node_trajectories.floats[n][key][t]
        IN  v[1] = "c" \/ v[1] = "max"

\* The nodes the run in progress (or the last one) has a prediction step for.
Predicted == {run.predictions[i][1] : i \in 1..Len(run.predictions)}

\* C16: in the trajectories a run records, the current_variance of a node that
\* has a prediction step is, at every time step after the first, the inverse of
\* the precision recorded for the node at the time step before.
C16_VarianceFromPreviousPrecision ==
  \A n \in Predicted \cap DOMAIN run.node_trajectories.floats :
    LET series == run.node_trajectories.floats[n]
    IN  \A t \in 2..Len(series["current_variance"]) :
          series["current_variance"][t] = Inverse(series["precision"][t - 1])

\* A run over two observations has returned, and a node with a prediction step
\* got a new precision from its posterior update in the first time step.
C16_Witness ==
  /\ pc = "done"
  /\ run.n_time = 2
  /\ \E n \in Predicted :
       LET series == node_trajectories.floats[n]
       IN  /\ series["precision"][1]
                = Floored(Computed("posterior_update_continuous_state_node", <<run.calls, 1>>))
           /\ series["current_variance"][2] = Inverse(series["precision"][1])
           /\ series["current_variance"][1] # series["current_variance"][2]

\* ---------------------------------------------- claims on the learning rules

\* a == b on f64: NaN equals nothing.
feq(a, b) == ~is_nan(a) /\ ~is_nan(b) /\ a = b

\* The value edges (child, turn of the loop, parent) of the network.
ValueEdges ==
  UNION {{<<c, i, edges[c].value_parents.v[i]>> : i \in 1..Len(edges[c].value_parents.v)} :
           c \in {n \in DOMAIN edges : is_some(edges[n].value_parents)}}

\* The strength of edge e on the child side and on the parent side.
ChildSide(vecs, e) == vecs[e[1]]["value_coupling_parents"][e[2]]

ParentSide(vecs, e) ==
  vecs[e[3]]["value_coupling_children"][position(edges[e[3]].value_children.v, e[1])]

\* The edge keeps the strength it had before the step on both sides.
Kept(e) ==
  /\ ChildSide(vectors', e) = ChildSide(vectors, e)
  /\ ParentSide(vectors', e) = ParentSide(vectors, e)

\* The strength a learning rule computed for edge e before its last guard.
MovedCoupling(e, learning_fn) ==
  moved_coupling(Network, e[1], e[3], ChildSide(vectors, e),
                 Len(edges[e[1]].value_parents.v), learning_fn)

\* C17: when the new strength a learning rule computed for an edge is NaN or
\* infinite, the edge keeps its previous strength on both sides.
C17_NanAndInfiniteDiscarded ==
  [][\A learning_fn \in LearningFns : \A e \in ValueEdges :
       (pc = "build" /\ pc' = learning_fn) =>
         LET new == MovedCoupling(e, learning_fn)
         IN  (is_nan(new) \/ is_infinite(new)) => Kept(e)]_vars

\* C18: when the child's mean equals g(prospective mean of the parent) times
\* the strength of the edge, a learning rule leaves the strength unchanged on
\* both sides, whatever the learning rate or the precision ratio.
C18_ZeroResidualFixedPoint ==
  [][\A learning_fn \in LearningFns : \A e \in ValueEdges :
       (pc = "build" /\ pc' = learning_fn) =>
         (feq(float_or(Network, e[1], "mean", Q(0, 1)),
              mul(g_value_of(Network, e[1], e[3]), ChildSide(vectors, e)))
            => Kept(e))]_vars

\* ------------------------------------------------- claims on scheduling

\* The network with its edges, kinds, inputs list and update type, and without
\* any attribute value.
Bare == [Network EXCEPT !.floats = <<>>, !.vectors = <<>>, !.fn_ptrs = <<>>]

\* C19: the sequences a call of set_update_sequence stores are those the
\* scheduler gives for the edges, the node kinds, the inputs list and the
\* update type alone, whatever the attribute values of the network and whatever
\* the order each iteration over the node map yields the ids in; so two calls
\* on networks that agree on these store identical sequences.
C19_ScheduleDeterministic ==
  [][(pc' = "scheduled" /\ edges' = edges) =>
       update_sequence' = set_update_sequence(Bare)]_vars

\* Three nodes were scheduled after set_coupling gave an edge a strength other
\* than the one add_nodes wrote, and two of them have a prediction step.
C19_Witness ==
  /\ pc = "scheduled"
  /\ Cardinality(DOMAIN edges) = MaxNodes
  /\ Len(update_sequence.predictions) >= 2
  /\ Len(update_sequence.updates) >= 3
  /\ \E n \in DOMAIN vectors :
       /\ "value_coupling_parents" \in DOMAIN vectors[n]
       /\ contains(vectors[n]["value_coupling_parents"], 2)

\* The nodes whose posterior kernel the scheduler chooses by the update type.
TypedPosterior ==
  {n \in DOMAIN edges :
     \/ edges[n].node_type = "volatile-state"
     \/ edges[n].node_type = "continuous-state" /\ is_some(edges[n].volatility_children)}

\* C20: a network whose update type is none of standard, eHGF and unbounded
\* is rejected when it is built or scheduled: its update sequence never holds,
\* for a node whose posterior kernel depends on the update type, the posterior
\* kernel of another update type.
C20_UnknownUpdateTypeRejected ==
  update_type \notin UpdateTypes =>
    \A k \in 1..Len(update_sequence.updates) :
      update_sequence.updates[k][1] \in TypedPosterior
        => update_sequence.updates[k][2] \notin PosteriorKernels

\* ------------------------------------------- claims on volatile-state nodes

\* C21: after any sequence of add_nodes calls every volatile-state node has no
\* external volatility edge: its stored volatility_parents and
\* volatility_children are absent, and no node lists it among its volatility
\* children or its volatility parents.
C21_NoExternalVolatilityEdge ==
  \A n \in DOMAIN edges :
    edges[n].node_type = "volatile-state" =>
      /\ is_none(edges[n].volatility_parents)
      /\ is_none(edges[n].volatility_children)
      /\ \A m \in DOMAIN edges :
           /\ ~contains(edges[m].volatility_children.v, n)
           /\ ~contains(edges[m].volatility_parents.v, n)

\* ------------------------------------------------- claims on the kernels

\* The step a turn of belief_propagation runs a kernel for.
KernelStep == run[run.stage][run.i]

\* A kernel ran in the step: a prediction or an update step that returned.
KernelRan ==
  /\ pc = "input_data" /\ pc' = "input_data"
  /\ run.stage \in {"predictions", "updates"}
  /\ run'.trace # run.trace

\* The attributes of every node but n are the same in the maps old and new.
OthersKept(old, new, n) ==
  /\ DOMAIN new = DOMAIN old
  /\ \A m \in DOMAIN old : m # n => new[m] = old[m]

\* C22: a prediction, prediction-error or posterior kernel called for node n
\* changes only attributes of n: the scalar and the vector attributes of every
\* other node, the edge lists and the inputs list are after the call what they
\* were before it.
C22_KernelWritesOwnNode ==
  [][KernelRan =>
       /\ OthersKept(floats, floats', KernelStep[1])
       /\ OthersKept(vectors, vectors', KernelStep[1])
       /\ edges' = edges
       /\ inputs' = inputs]_vars

\* The posterior kernel of a node with a value child has run in the second
\* time step: it read the child's attributes and wrote its own, so the node and
\* its child both hold values computed in that time step.
C22_Witness ==
  /\ pc = "input_data"
  /\ run.t = 1
  /\ \E k \in 1..Len(run.trace) :
       LET n == run.trace[k][2]
           fn == run.trace[k][3]
       IN  /\ fn \in PosteriorKernels
           /\ is_some(edges[n].value_children)
           /\ edges[n].value_children.v # <<>>
           /\ floats[n]["mean"] = Computed(fn, <<run.calls, 2>>)
           /\ \A c \in Range(edges[n].value_children.v) :
                c # n /\ floats[c]["mean"] # floats[n]["mean"]

\* C23: the prediction step of a continuous-state node that is an input (its
\* children lists are both absent) and has no volatility parent leaves the
\* expected_precision of the node as it was, at every time step; the prediction
\* step of every other continuous-state node writes the expected_precision it
\* computed.
C23_InputKeepsExpectedPrecision ==
  [][(KernelRan /\ KernelStep[2] = "prediction_continuous_state_node") =>
       LET n == KernelStep[1]
           is_input == is_none(edges[n].value_children) /\ is_none(edges[n].volatility_children)
           no_volatility_parent == edges[n].volatility_parents.v = <<>>
       IN  IF is_input /\ no_volatility_parent
           THEN floats'[n]["expected_precision"] = floats[n]["expected_precision"]
           ELSE floats'[n]["expected_precision"]
                  = Computed("prediction_continuous_state_node", Time)]_vars

\* ------------------------------------------- claims on the coupling vectors

\* The edge lists of a node and the coupling vectors that go with them.
CouplingKeys ==
  {<<"value_parents", "value_coupling_parents">>,
   <<"value_children", "value_coupling_children">>,
   <<"volatility_parents", "volatility_coupling_parents">>,
   <<"volatility_children", "volatility_coupling_children">>}

\* C24: after any sequence of add_nodes calls that name only existing nodes,
\* every coupling vector of every node has the length of its edge list (no
\* entry when the list is absent), and every entry is the 1.0 add_nodes wrote
\* or a strength set_coupling wrote.
C24_CouplingVectorsParallel ==
  \A n \in DOMAIN edges : \A ck \in CouplingKeys :
    LET v == VecOf(vectors, n, ck[2])
    IN  /\ Len(v) = Len(edges[n][ck[1]].v)
        /\ \A i \in 1..Len(v) : v[i] \in {1} \cup CouplingValues

\* ------------------------------------------ claims on the prediction sequence

\* The nodes reached from the nodes of S along the parent lists in at most k steps.
RECURSIVE Ancestors(_, _)
Ancestors(S, k) ==
  IF k = 0 THEN {}
  ELSE LET up == UNION {ParentsOf(m) \cap Nodes : m \in S}
       IN  up \cup Ancestors(up, k - 1)

\* No node is its own ancestor.
Acyclic == \A n \in Nodes : n \notin Ancestors({n}, Cardinality(Nodes))

\* C25: when the parent relation of the graph is acyclic, the prediction
\* sequence holds every continuous-state and every volatile-state node exactly
\* once, with the prediction kernel of its kind, and holds no ef-state node.
C25_EveryPredictingNodeOnce ==
  (pc = "scheduled" /\ Acyclic) =>
    LET P == update_sequence.predictions
        At(n) == {i \in 1..Len(P) : P[i][1] = n}
    IN  /\ \A i \in 1..Len(P) : P[i][1] \in Nodes
        /\ \A n \in Nodes :
             CASE edges[n].node_type = "continuous-state" ->
                    /\ Cardinality(At(n)) = 1
                    /\ \A i \in At(n) : P[i][2] = "prediction_continuous_state_node"
               [] edges[n].node_type = "volatile-state" ->
                    /\ Cardinality(At(n)) = 1
                    /\ \A i \in At(n) : P[i][2] = "prediction_volatile_state_node"
               [] OTHER -> At(n) = {}

\* An acyclic graph of a continuous-state, a volatile-state and an ef-state
\* node, one of them the parent of another, was scheduled: two prediction
\* steps, the parent before its child.
C25_Witness ==
  /\ pc = "scheduled"
  /\ Acyclic
  /\ {edges[n].node_type : n \in Nodes} = NodeKinds
  /\ Len(update_sequence.predictions) = 2
  /\ \E n \in Nodes : ParentsOf(n) \cap Nodes # {}
  /\ update_sequence.predictions[1][1] \in ParentsOf(update_sequence.predictions[2][1])

\* ------------------------------------------ claims on the planner's loops

\* The nodes reached from the nodes of S along the children lists in at most k steps.
RECURSIVE Descendants(_, _)
Descendants(S, k) ==
  IF k = 0 THEN {}
  ELSE LET down == UNION {ChildrenOf(m) \cap Nodes : m \in S}
       IN  down \cup Descendants(down, k - 1)

\* The nodes on or behind a cycle of the parent lists: no pass of the
\* prediction loop finds them free.
StuckPrediction ==
  LET N == Cardinality(Nodes)
  IN  {n \in Nodes : \E m \in {n} \cup Ancestors({n}, N) : m \in Ancestors({m}, N)}

\* The nodes on or behind a cycle of the children lists: no pass of the update
\* loop finds them eligible.
StuckUpdate ==
  LET N == Cardinality(Nodes)
  IN  {n \in Nodes : \E m \in {n} \cup Descendants({n}, N) : m \in Descendants({m}, N)}

\* The state of the update loop before its first pass and after each of its
\* first k passes.
RECURSIVE Passes(_, _, _)
Passes(net, st, k) ==
  IF k = 0 THEN <<st>> ELSE <<st>> \o Passes(net, updates_pass(net, st), k - 1)

\* C26: both loops of the planner end on every graph, cyclic ones included.
\* The prediction loop takes one node out of its list in every pass and ends
\* when the list is empty or no node is free; every pass of the update loop ends
\* the loop or leaves fewer nodes in the two queues, so that the loop has ended
\* after at most 2 * (number of nodes) + 1 passes with the sequence that is
\* stored; the nodes on or behind a cycle have no step in the sequences.
C26_PlannerLoopsEnd ==
  pc = "scheduled" =>
    LET N == Cardinality(Nodes)
        r == predictions_run(Network)
        keys == SortedKeys(Nodes)
        NotInput(x) == ~contains(inputs, x)
        T == Passes(Network,
                    [pe_nodes_idxs |-> keys, po_nodes_idxs |-> SelectSeq(keys, NotInput),
                     updates |-> <<>>, passes |-> 0, done |-> FALSE], 2 * N + 1)
        Size(st) == Len(st.pe_nodes_idxs) + Len(st.po_nodes_idxs)
    IN  /\ Len(r.removed) + r.n_remaining = N
        /\ Len(r.nodes_idxs) = r.n_remaining
        /\ r.n_remaining = 0 \/ first_free(Network, r.nodes_idxs) = 0
        /\ \A n \in StuckPrediction :
             /\ ~contains(r.removed, n)
             /\ \A i \in 1..Len(update_sequence.predictions) :
                  update_sequence.predictions[i][1] # n
        /\ \A k \in 1..(2 * N + 1) :
             (k = 1 \/ ~T[k].done) => (T[k + 1].done \/ Size(T[k + 1]) < Size(T[k]))
        /\ \E k \in 2..(2 * N + 2) :
             /\ T[k].done
             /\ \A j \in 2..(k - 1) : ~T[j].done
             /\ T[k].updates = update_sequence.updates
        /\ \A n \in StuckUpdate :
             \A i \in 1..Len(update_sequence.updates) : update_sequence.updates[i][1] # n

\* A graph with a cycle was scheduled: a node that is its own parent and child
\* is left out of both sequences, a node before the cycle has its steps, and
\* the update loop made more than one pass.
C26_Witness ==
  /\ pc = "scheduled"
  /\ StuckPrediction # {}
  /\ StuckUpdate # {}
  /\ StuckPrediction # Nodes
  /\ update_sequence.predictions # <<>>
  /\ update_sequence.updates # <<>>
  /\ updates_run(Network).passes >= 2

\* ------------------------------------- claims on the prediction-error step

\* C27: the prediction-error step of a continuous-state node divides the value
\* prediction error by max(1, number of value parents) and the volatility
\* prediction error by max(1, number of volatility parents): a parents list that
\* is present and empty divides by 1.
C27_DividedByAtLeastOne ==
  [][(KernelRan /\ KernelStep[2] = "prediction_error_continuous_state_node") =>
       floats' = prediction_error_state_node_safe(Network, KernelStep[1], KernelStep[2],
                                                  Time)]_vars

\* --------------------------- claims on the learning sequence of a graph

\* C28: in the learning sequence built from the sequences set_update_sequence
\* gives for a graph built bottom-up, every node c with a prediction-error step
\* has its learning step after that step and before the posterior step of each
\* of its value parents that is still in the sequence: the weights of an edge
\* are learned before the belief of the parent is updated.
C28_LearningBeforeParentPosterior ==
  pc = "learning" =>
    LET R == learning_sequence.updates
        Pos(n, K) == StepsOf(R, n, K)
    IN  \A c \in Nodes :
          /\ Pos(c, PredictionErrorKernels) # {} => Pos(c, LearningFns) # {}
          /\ \A l \in Pos(c, LearningFns) :
               /\ \E e \in Pos(c, PredictionErrorKernels) : e < l
               /\ \A p \in ListSet(edges[c].value_parents) \cap Nodes :
                    \A q \in Pos(p, PosteriorKernels) : l < q

\* A child with a learning step between its prediction-error step and the
\* posterior step of its value parent, in a sequence a predictor was taken
\* out of.
C28_Witness ==
  /\ pc = "learning"
  /\ inputs_x_idxs # <<>>
  /\ LET R == learning_sequence.updates
     IN  \E c \in Nodes : \E p \in ListSet(edges[c].value_parents) \cap Nodes :
           \E e, l, q \in 1..Len(R) :
             /\ e < l /\ l < q
             /\ R[e][1] = c /\ R[e][2] \in PredictionErrorKernels
             /\ R[l][1] = c /\ R[l][2] \in LearningFns
             /\ R[q][1] = p /\ R[q][2] \in PosteriorKernels
             /\ \E x \in Range(inputs_x_idxs) :
                  \E i \in 1..Len(update_sequence.updates) : update_sequence.updates[i][1] = x

\* ----------------------------------------- claims on the stored sequences

\* The nodes that have a step in the sequences seq.
Scheduled(seq) ==
  {seq.predictions[i][1] : i \in 1..Len(seq.predictions)}
    \cup {seq.updates[i][1] : i \in 1..Len(seq.updates)}

\* C29: input_data sets the sequences only when both stored sequences are
\* empty, and otherwise runs the stored sequences as they are: a node added
\* after set_update_sequence has no prediction and no update step in the calls
\* of input_data that follow, until set_update_sequence is called again and
\* stores the sequences of the graph as it is then; the attributes of the node
\* are recorded at every time step all the same.
C29_StoredSequencesRun ==
  [][/\ (pc \in {"build", "scheduled", "done"} /\ pc' \in {"input_data", "done"}
           /\ run'.calls = run.calls + 1) =>
          /\ update_sequence' =
               IF update_sequence.predictions = <<>> /\ update_sequence.updates = <<>>
               THEN set_update_sequence(Network)
               ELSE update_sequence
          /\ run'.predictions = update_sequence'.predictions
          /\ run'.updates = update_sequence'.updates
          /\ (update_sequence.predictions # <<>> \/ update_sequence.updates # <<>>) =>
               \A n \in Nodes \ Scheduled(update_sequence) :
                 n \notin Scheduled([predictions |-> run'.predictions,
                                     updates |-> run'.updates])
     /\ (pc = "input_data" /\ pc' \in {"input_data", "done"}) =>
          /\ update_sequence' = update_sequence
          /\ run'.predictions = run.predictions
          /\ run'.updates = run.updates
     /\ (pc = "input_data" /\ pc' = "done") =>
          \A n \in DOMAIN floats' : \A key \in DOMAIN floats'[n] :
            /\ n \in DOMAIN node_trajectories'.floats
            /\ key \in DOMAIN node_trajectories'.floats[n]
            /\ Len(node_trajectories'.floats[n][key]) = run'.n_time
     /\ (pc = "scheduled" /\ pc' = "scheduled" /\ edges' = edges) =>
          update_sequence' = set_update_sequence(Network)]_vars

\* A continuous-state node added after set_update_sequence: a call of
\* input_data over two observations has returned, the node has no step in the
\* sequences that ran, and its mean was recorded twice.
C29_Witness ==
  /\ pc = "done"
  /\ run.n_time = 2
  /\ update_sequence.predictions # <<>>
  /\ \E n \in Nodes \ Scheduled(update_sequence) :
       /\ edges[n].node_type = "continuous-state"
       /\ n \notin Scheduled([predictions |-> run.predictions, updates |-> run.updates])
       /\ n \in DOMAIN node_trajectories.floats
       /\ Len(node_trajectories.floats[n]["mean"]) = 2
       /\ Len(node_trajectories.floats[n]["expected_mean"]) = 2

\* ------------------------------------------- claims on the frame of learning

\* The node a call of a learning rule can have run on to give the vectors new:
\* c, whose entries of value_coupling_parents may have moved, and with them the
\* entry for c in value_coupling_children of each value parent of c.
LearnedOn(c, new) ==
  /\ DOMAIN new = DOMAIN vectors
  /\ \A n \in DOMAIN vectors :
       /\ DOMAIN new[n] = DOMAIN vectors[n]
       /\ \A key \in DOMAIN vectors[n] :
            /\ Len(new[n][key]) = Len(vectors[n][key])
            /\ \A i \in 1..Len(vectors[n][key]) :
                 new[n][key][i] # vectors[n][key][i] =>
                   \/ n = c /\ key = "value_coupling_parents"
                   \/ /\ key = "value_coupling_children"
                      /\ is_some(edges[c].value_parents)
                      /\ n \in Range(edges[c].value_parents.v)
                      /\ is_some(edges[n].value_children)
                      /\ i = position(edges[n].value_children.v, c)
  /\ is_none(edges[c].value_parents) => new = vectors

\* C30: a call of a learning rule, fixed or dynamic, on node c changes only
\* strengths of the value edges (p, c): entries of value_coupling_parents of c
\* and, for each value parent p of c, the entry for c in value_coupling_children
\* of p. It changes no scalar attribute, no edge list, no coupling function and
\* no coupling entry of another edge, and it changes nothing when c has no
\* value parents.
C30_LearningFrame ==
  [][(pc = "build" /\ pc' \in LearningFns) =>
       /\ floats' = floats
       /\ edges' = edges
       /\ inputs' = inputs
       /\ fn_ptrs' = fn_ptrs
       /\ \E c \in DOMAIN edges : LearnedOn(c, vectors')
       /\ vectors' # vectors =>
            \A c \in DOMAIN edges :
              vectors' = learning_weights(Network, c, pc').vectors =>
                LearnedOn(c, vectors')]_vars

\* A learning rule has run on the middle node of a chain: the strength of the
\* edge to its parent has moved on both sides, to the same value, and the
\* strength of the edge to its child is the one it was built with.
C30_Witness ==
  /\ pc \in LearningFns
  /\ Cardinality(DOMAIN edges) = 3
  /\ edges[1].value_parents = Some(<<2>>)
  /\ vectors[1]["value_coupling_parents"][1] = Q(3, 2)
  /\ vectors[2]["value_coupling_children"][1] = Q(3, 2)
  /\ vectors[1]["value_coupling_children"][1] = Q(2, 1)
  /\ vectors[0]["value_coupling_parents"][1] = Q(2, 1)
====
